---- MODULE Spec2Model ----
(***************************************************************************)
(* Model of the AR-FitTry estimation stack: the scalar Kalman filter and   *)
(* its composites (OptimizedKalmanFilter.js), the face tracker             *)
(* (FaceTracker.js), the anthropometric scale calibrator                   *)
(* (AutoScaleDetection.js), the transform composer (RenderEngine.js) and   *)
(* the application's tracking loop (ARFitTryApp).                          *)
(*                                                                         *)
(* Numbers.  JavaScript numbers are modelled as exact extended rationals   *)
(* <<n, d>>: d > 0 is the finite value n/d in lowest terms, <<1,0>> and    *)
(* <<-1,0>> are +Infinity and -Infinity and <<0,0>> is NaN.  Rounding of   *)
(* IEEE doubles and the sign of zero are not modelled.  Math.sqrt is exact *)
(* and is only applied to perfect squares: every input of the model is     *)
(* chosen so that the code's square roots are rational.                    *)
(***************************************************************************)
EXTENDS Integers, Sequences, FiniteSets, TLC

(***************************************************************************)
(* Extended rational arithmetic (JavaScript number semantics).             *)
(***************************************************************************)
Abs(i) == IF i < 0 THEN -i ELSE i

Sgn(i) == IF i < 0 THEN -1 ELSE IF i > 0 THEN 1 ELSE 0

RECURSIVE GCD(_, _)
GCD(a, b) == IF b = 0 THEN a ELSE GCD(b, a % b)

NaN == <<0, 0>>

PosInf == <<1, 0>>

NegInf == <<-1, 0>>

\* n/d in lowest terms with a positive denominator; n/0 is +-Infinity or NaN
Rat(n, d) ==
  IF d = 0 THEN <<Sgn(n), 0>>
  ELSE LET g == GCD(Abs(n), Abs(d))
           s == IF d < 0 THEN -1 ELSE 1
       IN  <<(s * n) \div g, (s * d) \div g>>

RInt(i) == <<i, 1>>

IsNaN(a) == a = NaN

IsFinite(a) == a[2] > 0

RNeg(a) == <<-a[1], a[2]>>

RAdd(a, b) ==
  IF IsNaN(a) \/ IsNaN(b) THEN NaN
  ELSE IF ~IsFinite(a) /\ ~IsFinite(b) THEN (IF a = b THEN a ELSE NaN)
  ELSE IF ~IsFinite(a) THEN a
  ELSE IF ~IsFinite(b) THEN b
  ELSE LET g == GCD(a[2], b[2])
       IN  Rat(a[1] * (b[2] \div g) + b[1] * (a[2] \div g), a[2] * (b[2] \div g))

RSub(a, b) == RAdd(a, RNeg(b))

RMul(a, b) ==
  IF IsNaN(a) \/ IsNaN(b) THEN NaN
  ELSE IF ~IsFinite(a) \/ ~IsFinite(b)
       THEN <<Sgn(a[1]) * Sgn(b[1]), 0>>
  ELSE LET g1 == GCD(Abs(a[1]), b[2])
           g2 == GCD(Abs(b[1]), a[2])
           h1 == IF g1 = 0 THEN 1 ELSE g1
           h2 == IF g2 = 0 THEN 1 ELSE g2
       IN  Rat((a[1] \div h1) * (b[1] \div h2), (a[2] \div h2) * (b[2] \div h1))

\* 1/b: 1/0 is +Infinity (the sign of zero is not modelled), 1/Infinity is 0
RInv(b) ==
  IF IsNaN(b) THEN NaN
  ELSE IF ~IsFinite(b) THEN <<0, 1>>
  ELSE IF b[1] = 0 THEN PosInf
  ELSE Rat(b[2], b[1])

RDiv(a, b) ==
  IF IsFinite(a) /\ IsFinite(b) /\ b[1] = 0 THEN <<Sgn(a[1]), 0>>
  ELSE IF ~IsNaN(a) /\ ~IsNaN(b) /\ ~IsFinite(a) /\ ~IsFinite(b) THEN NaN
  ELSE RMul(a, RInv(b))

\* Comparisons: every comparison with NaN is false, as in JavaScript
RLt(a, b) ==
  /\ ~IsNaN(a) /\ ~IsNaN(b)
  /\ a # b
  /\ IF IsFinite(a) /\ IsFinite(b) THEN a[1] * b[2] < b[1] * a[2]
     ELSE IF ~IsFinite(a) THEN a = NegInf
     ELSE b = PosInf

RLe(a, b) == ~IsNaN(a) /\ ~IsNaN(b) /\ (a = b \/ RLt(a, b))

RGt(a, b) == RLt(b, a)

RGe(a, b) == RLe(b, a)

RAbs(a) == <<Abs(a[1]), a[2]>>

\* Math.min / Math.max: NaN if either argument is NaN
RMin(a, b) == IF IsNaN(a) \/ IsNaN(b) THEN NaN ELSE IF RLt(b, a) THEN b ELSE a

RMax(a, b) == IF IsNaN(a) \/ IsNaN(b) THEN NaN ELSE IF RLt(a, b) THEN b ELSE a

RECURSIVE SqrtSearch(_, _, _)
\* the largest r in lo..hi with r*r <= n
SqrtSearch(n, lo, hi) ==
  IF lo >= hi THEN lo
  ELSE LET mid == (lo + hi + 1) \div 2
       IN  IF mid * mid <= n THEN SqrtSearch(n, mid, hi)
           ELSE SqrtSearch(n, lo, mid - 1)

\* exact integer square root, defined on perfect squares only
ISqrt(n) == CHOOSE r \in {SqrtSearch(n, 0, IF n < 46340 THEN n ELSE 46340)} : r * r = n

\* Math.sqrt on the values the model uses
RSqrt(a) ==
  IF IsNaN(a) \/ a = NegInf \/ (IsFinite(a) /\ a[1] < 0) THEN NaN
  ELSE IF a = PosInf THEN PosInf
  ELSE <<ISqrt(a[1]), ISqrt(a[2])>>

Zero == RInt(0)

One == RInt(1)

(***************************************************************************)
(* OptimizedKalmanFilter (scalar estimator).  The filter is a record; each *)
(* method is an operator from the old record to the new one.               *)
(***************************************************************************)
maxHistory == 100

\* constructor(processNoise, measurementNoise)
KFNew(Q, R) ==
  [Q |-> Q, R |-> R, x |-> Zero, P |-> One, K |-> Zero, isInitialized |-> FALSE,
   estimates |-> <<>>, measurements |-> <<>>, innovations |-> <<>>]

\* predict() with the sign of the process noise flipped
KFPredict_Subtracts(f) == [f EXCEPT !.P = RSub(f.P, f.Q)]

\* predict(): P = P + Q
KFPredict(f) == [f EXCEPT !.P = RAdd(f.P, f.Q)]

\* addToHistory that, over capacity, shifts only the measurements array
KFAddToHistory_ShiftsMeasurementsOnly(f, measurement, estimate, innovation) ==
  LET ms == Append(f.measurements, measurement)
      es == Append(f.estimates, estimate)
      is == Append(f.innovations, innovation)
  IN  IF Len(ms) > maxHistory
      THEN [f EXCEPT !.measurements = Tail(ms), !.estimates = es, !.innovations = is]
      ELSE [f EXCEPT !.measurements = ms, !.estimates = es, !.innovations = is]

\* addToHistory(measurement, estimate, innovation)
KFAddToHistory(f, measurement, estimate, innovation) ==
  LET ms == Append(f.measurements, measurement)
      es == Append(f.estimates, estimate)
      is == Append(f.innovations, innovation)
  IN  IF Len(ms) > maxHistory
      THEN [f EXCEPT !.measurements = Tail(ms), !.estimates = Tail(es),
                     !.innovations = Tail(is)]
      ELSE [f EXCEPT !.measurements = ms, !.estimates = es, !.innovations = is]

\* update() that computes the gain before the prediction step
KFUpdate_GainBeforePredict(f, measurement) ==
  IF ~f.isInitialized
  THEN KFAddToHistory([f EXCEPT !.x = measurement, !.isInitialized = TRUE],
                      measurement, measurement, Zero)
  ELSE LET K1 == RDiv(f.P, RAdd(f.P, f.R))
           f1 == KFPredict(f)
           innovation == RSub(measurement, f1.x)
           x1 == RAdd(f1.x, RMul(K1, innovation))
           P1 == RMul(RSub(One, K1), f1.P)
       IN  KFAddToHistory([f1 EXCEPT !.K = K1, !.x = x1, !.P = P1],
                          measurement, x1, innovation)

\* update(measurement): the filter after the call (the call returns its x)
KFUpdate(f, measurement) ==
  IF ~f.isInitialized
  THEN KFAddToHistory([f EXCEPT !.x = measurement, !.isInitialized = TRUE],
                      measurement, measurement, Zero)
  ELSE LET f1 == KFPredict(f)
           K1 == RDiv(f1.P, RAdd(f1.P, f1.R))
           innovation == RSub(measurement, f1.x)
           x1 == RAdd(f1.x, RMul(K1, innovation))
           P1 == RMul(RSub(One, K1), f1.P)
       IN  KFAddToHistory([f1 EXCEPT !.K = K1, !.x = x1, !.P = P1],
                          measurement, x1, innovation)

\* setParameters(processNoise, measurementNoise)
KFSetParameters(f, Q, R) == [f EXCEPT !.Q = Q, !.R = R]

\* reset() that keeps the error covariance
KFReset_KeepsP(f) ==
  [f EXCEPT !.x = Zero, !.K = Zero, !.isInitialized = FALSE,
            !.estimates = <<>>, !.measurements = <<>>, !.innovations = <<>>]

\* reset()
KFReset(f) ==
  [f EXCEPT !.x = Zero, !.P = One, !.K = Zero, !.isInitialized = FALSE,
            !.estimates = <<>>, !.measurements = <<>>, !.innovations = <<>>]

\* getMetrics(), without the innovation statistics
KFGetMetrics(f) == [gain |-> f.K, covariance |-> f.P, qrRatio |-> RDiv(f.Q, f.R)]

(***************************************************************************)
(* Vector3KalmanFilter: three scalar filters, one per axis.                *)
(***************************************************************************)
\* constructor(processNoise, measurementNoise)
V3New(Q, R) == [xFilter |-> KFNew(Q, R), yFilter |-> KFNew(Q, R), zFilter |-> KFNew(Q, R)]

\* filter(vector): the composite after the call
V3Filter(v3, vector) ==
  [xFilter |-> KFUpdate(v3.xFilter, vector.x),
   yFilter |-> KFUpdate(v3.yFilter, vector.y),
   zFilter |-> KFUpdate(v3.zFilter, vector.z)]

\* what filter(vector) returned, read off the composite after the call
V3Value(v3) == [x |-> v3.xFilter.x, y |-> v3.yFilter.x, z |-> v3.zFilter.x]

\* reset()
V3Reset(v3) ==
  [xFilter |-> KFReset(v3.xFilter), yFilter |-> KFReset(v3.yFilter),
   zFilter |-> KFReset(v3.zFilter)]

(***************************************************************************)
(* QuaternionKalmanFilter: four scalar filters, then normalize().  A       *)
(* normalized quaternion is kept as the record [w, x, y, z, m2] that       *)
(* stands for (w, x, y, z) / sqrt(m2): the components normalize() divides  *)
(* and the square of the magnitude it divides them by.                     *)
(***************************************************************************)
\* constructor(processNoise, measurementNoise)
QKFNew(Q, R) ==
  [wFilter |-> KFNew(Q, R), xFilter |-> KFNew(Q, R),
   yFilter |-> KFNew(Q, R), zFilter |-> KFNew(Q, R)]

\* w*w + x*x + y*y + z*z
QSumSq(q) ==
  RAdd(RAdd(RMul(q.w, q.w), RMul(q.x, q.x)), RAdd(RMul(q.y, q.y), RMul(q.z, q.z)))

\* normalize() without the zero-magnitude fallback
QNormalize_NoZeroCheck(q) == [w |-> q.w, x |-> q.x, y |-> q.y, z |-> q.z, m2 |-> QSumSq(q)]

\* normalize(q): magnitude === 0 exactly when the sum of squares is 0
QNormalize(q) ==
  LET magnitude2 == QSumSq(q)
  IN  IF magnitude2 = Zero
      THEN [w |-> One, x |-> Zero, y |-> Zero, z |-> Zero, m2 |-> One]
      ELSE [w |-> q.w, x |-> q.x, y |-> q.y, z |-> q.z, m2 |-> magnitude2]

\* filter(quaternion): the composite after the call
QKFFilter(qf, quaternion) ==
  [wFilter |-> KFUpdate(qf.wFilter, quaternion.w),
   xFilter |-> KFUpdate(qf.xFilter, quaternion.x),
   yFilter |-> KFUpdate(qf.yFilter, quaternion.y),
   zFilter |-> KFUpdate(qf.zFilter, quaternion.z)]

\* the four filtered components after a call of filter()
QKFFiltered(qf) ==
  [w |-> qf.wFilter.x, x |-> qf.xFilter.x, y |-> qf.yFilter.x, z |-> qf.zFilter.x]

\* what filter(quaternion) returned: normalize(filtered)
QKFValue(qf) == QNormalize(QKFFiltered(qf))

\* the squared norm of a normalized quaternion [w, x, y, z, m2]
QNormSq(n) == RDiv(QSumSq(n), n.m2)

\* setParameters(processNoise, measurementNoise)
QKFSetParameters(qf, Q, R) ==
  [wFilter |-> KFSetParameters(qf.wFilter, Q, R), xFilter |-> KFSetParameters(qf.xFilter, Q, R),
   yFilter |-> KFSetParameters(qf.yFilter, Q, R), zFilter |-> KFSetParameters(qf.zFilter, Q, R)]

\* reset()
QKFReset(qf) ==
  [wFilter |-> KFReset(qf.wFilter), xFilter |-> KFReset(qf.xFilter),
   yFilter |-> KFReset(qf.yFilter), zFilter |-> KFReset(qf.zFilter)]

(***************************************************************************)
(* Configuration (CONFIG of config.js).                                    *)
(***************************************************************************)
\* CONFIG.autoScale
AUTO_SCALE ==
  [baseScale |-> Rat(18, 10000), eyeDistanceReference |-> RInt(100),
   adaptiveFactor |-> One, minScale |-> Rat(5, 10000), maxScale |-> Rat(1, 100)]

recalculateInterval == 30

\* CONFIG.tracking
TRACKING ==
  [positionMultiplier |-> RInt(8), depthOffset |-> Rat(-32, 10),
   confidenceThreshold |-> Rat(1, 2)]

stabilizationFrames == 5

\* CONFIG.faceLandmarks
FACE_LANDMARKS ==
  [leftEye |-> <<33, 133, 160, 159, 158, 144, 145, 153>>,
   rightEye |-> <<362, 263, 387, 386, 385, 373, 374, 380>>,
   noseTip |-> 1, mouthCenter |-> 13, leftTemple |-> 234, rightTemple |-> 454,
   forehead |-> <<10, 67, 109, 338, 297>>, topOfHead |-> 10]

\* the absent value (null / undefined)
Null == [null |-> TRUE]

(***************************************************************************)
(* Landmark sets.  A keypoint is [x, y, z, def]; def = FALSE is an array   *)
(* hole (undefined).  The detector's result is described by a face record  *)
(* [len, leftEye, rightEye, nose, mouth, top, forehead, leftTemple,        *)
(* rightTemple, base, nan, holes]: the point at each landmark group, the   *)
(* point at every other index, and the indices that are NaN or missing.    *)
(***************************************************************************)
Pt(x, y, z) == [x |-> RInt(x), y |-> RInt(y), z |-> RInt(z), def |-> TRUE]

NaNPoint == [x |-> NaN, y |-> NaN, z |-> NaN, def |-> TRUE]

Undefined == [x |-> NaN, y |-> NaN, z |-> NaN, def |-> FALSE]

Range(seq) == {seq[i] : i \in 1..Len(seq)}

\* the indices of each landmark group with more than one point
LeftEyeIndices == Range(FACE_LANDMARKS.leftEye)

RightEyeIndices == Range(FACE_LANDMARKS.rightEye)

ForeheadIndices == Range(FACE_LANDMARKS.forehead)

\* keypoints[i] of the landmark array the face record describes
KeypointAt(face, i) ==
  IF i < 0 \/ i >= face.len \/ i \in face.holes THEN Undefined
  ELSE IF i \in face.nan THEN NaNPoint
  ELSE IF i \in LeftEyeIndices THEN face.leftEye
  ELSE IF i \in RightEyeIndices THEN face.rightEye
  ELSE IF i = FACE_LANDMARKS.noseTip THEN face.nose
  ELSE IF i = FACE_LANDMARKS.mouthCenter THEN face.mouth
  ELSE IF i = FACE_LANDMARKS.topOfHead THEN face.top
  ELSE IF i \in ForeheadIndices THEN face.forehead
  ELSE IF i = FACE_LANDMARKS.leftTemple THEN face.leftTemple
  ELSE IF i = FACE_LANDMARKS.rightTemple THEN face.rightTemple
  ELSE face.base

(***************************************************************************)
(* AutoScaleDetection.                                                     *)
(***************************************************************************)
\* isValidKeypoint(keypoint)
IsValidKeypoint(keypoint) == keypoint.def /\ ~IsNaN(keypoint.x) /\ ~IsNaN(keypoint.y)

\* z || 0
OrZero(z) == IF IsNaN(z) THEN Zero ELSE z

DefaultKeypoint == [x |-> Zero, y |-> Zero, z |-> Zero, def |-> TRUE]

\* the copy safeGetKeypoint returns for keypoints[index]
SafePoint(point) ==
  IF ~IsValidKeypoint(point) THEN DefaultKeypoint
  ELSE [x |-> point.x, y |-> point.y, z |-> OrZero(point.z), def |-> TRUE]

\* safeGetKeypoint(keypoints, index): the default {0,0,0} for a bad index or point
SafeGetKeypoint(face, index) ==
  IF face = Null \/ index < 0 \/ index >= face.len THEN DefaultKeypoint
  ELSE SafePoint(KeypointAt(face, index))

\* one step of the forEach of getAverageLandmark on <<sumX, sumY, sumZ, validCount>>
AddValid(point, sums) ==
  IF IsValidKeypoint(point)
  THEN <<RAdd(point.x, sums[1]), RAdd(point.y, sums[2]), RAdd(OrZero(point.z), sums[3]),
         sums[4] + 1>>
  ELSE sums

RECURSIVE SumValid(_, _, _)
\* the forEach of getAverageLandmark: <<sumX, sumY, sumZ, validCount>>
SumValid(face, indices, i) ==
  IF i > Len(indices) THEN <<Zero, Zero, Zero, 0>>
  ELSE AddValid(SafeGetKeypoint(face, indices[i]), SumValid(face, indices, i + 1))

\* the average getAverageLandmark returns for the sums of the valid points
AverageOf(sums) ==
  IF sums[4] = 0 THEN DefaultKeypoint
  ELSE [x |-> RDiv(sums[1], RInt(sums[4])), y |-> RDiv(sums[2], RInt(sums[4])),
        z |-> RDiv(sums[3], RInt(sums[4])), def |-> TRUE]

\* AutoScaleDetection.getAverageLandmark(keypoints, indices) for an index array
ASAverageLandmark(face, indices) ==
  IF face = Null THEN DefaultKeypoint ELSE AverageOf(SumValid(face, indices, 1))

Sq(a) == RMul(a, a)

\* Math.sqrt(Math.pow(b.x - a.x, 2) + Math.pow(b.y - a.y, 2))
Distance2D(a, b) == RSqrt(RAdd(Sq(RSub(b.x, a.x)), Sq(RSub(b.y, a.y))))

\* the overall head scale factor computed before the bounds check
OverallScaleFactor(eyeDistancePixels, headWidthPixels, headHeightPixels) ==
  RDiv(RAdd(RDiv(RMul(headWidthPixels, RDiv(RInt(63), eyeDistancePixels)), RInt(145)),
            RDiv(RMul(headHeightPixels, RDiv(RInt(63), eyeDistancePixels)), RInt(230))),
       RInt(2))

\* the head measurements of calculateRealHeadDimensions, before any check
HeadMeasurements(face) ==
  [leftEye |-> ASAverageLandmark(face, FACE_LANDMARKS.leftEye),
   rightEye |-> ASAverageLandmark(face, FACE_LANDMARKS.rightEye),
   eyeDistancePixels |->
     Distance2D(ASAverageLandmark(face, FACE_LANDMARKS.leftEye),
                ASAverageLandmark(face, FACE_LANDMARKS.rightEye)),
   headWidthPixels |->
     Distance2D(SafeGetKeypoint(face, FACE_LANDMARKS.leftTemple),
                SafeGetKeypoint(face, FACE_LANDMARKS.rightTemple)),
   headHeightPixels |->
     RAbs(RSub(SafeGetKeypoint(face, FACE_LANDMARKS.topOfHead).y,
               SafeGetKeypoint(face, FACE_LANDMARKS.noseTip).y))]

\* the scale-factor bounds check with the upper bound forgotten
FactorOutOfBounds_NoUpper(overallScaleFactor) ==
  RLt(overallScaleFactor, Rat(1, 2)) \/ IsNaN(overallScaleFactor)

\* overallScaleFactor < 0.5 || overallScaleFactor > 2.0 || isNaN(overallScaleFactor)
FactorOutOfBounds(overallScaleFactor) ==
  \/ RLt(overallScaleFactor, Rat(1, 2)) \/ RGt(overallScaleFactor, RInt(2))
  \/ IsNaN(overallScaleFactor)

\* the last check of calculateRealHeadDimensions and the object it returns
CheckedDimensions(m, overallScaleFactor) ==
  IF FactorOutOfBounds(overallScaleFactor) THEN Null
  ELSE [eyeDistancePixels |-> m.eyeDistancePixels,
        widthPixels |-> m.headWidthPixels, heightPixels |-> m.headHeightPixels,
        overallScaleFactor |-> overallScaleFactor]

\* the checks calculateRealHeadDimensions makes on its measurements, in order
CheckMeasurements(m) ==
  IF ~IsValidKeypoint(m.leftEye) \/ ~IsValidKeypoint(m.rightEye) THEN Null
  ELSE IF RLe(m.eyeDistancePixels, Zero) \/ IsNaN(m.eyeDistancePixels) THEN Null
  ELSE IF \/ RLe(m.headWidthPixels, Zero) \/ RLe(m.headHeightPixels, Zero)
          \/ IsNaN(m.headWidthPixels) \/ IsNaN(m.headHeightPixels) THEN Null
  ELSE CheckedDimensions(m, OverallScaleFactor(m.eyeDistancePixels, m.headWidthPixels,
                                               m.headHeightPixels))

\* calculateRealHeadDimensions(keypoints, width, height): Null or the dimensions
CalculateRealHeadDimensions(face, width, height) ==
  IF face = Null \/ face.len < 468 THEN Null
  ELSE CheckMeasurements(HeadMeasurements(face))

\* analyzeModelDimensions(model): Null for no model or when measuring it throws
AnalyzeModelDimensions(model) ==
  IF model = Null THEN Null
  ELSE IF ~model.measurable THEN Null
  ELSE [measured |-> model.id]

Scale3(v) == [x |-> v, y |-> v, z |-> v]

\* getFallbackScale(): AUTO_SCALE.baseScale || 0.0018
GetFallbackScale ==
  [scale |-> Scale3(IF AUTO_SCALE.baseScale = Zero \/ IsNaN(AUTO_SCALE.baseScale)
                    THEN Rat(18, 10000) ELSE AUTO_SCALE.baseScale),
   headDimensions |-> Null, isFallback |-> TRUE]

\* the safety limits left out
ClampScale_None(finalScale) == finalScale

\* Math.max(AUTO_SCALE.minScale, Math.min(AUTO_SCALE.maxScale, finalScale))
ClampScale(finalScale) == RMax(AUTO_SCALE.minScale, RMin(AUTO_SCALE.maxScale, finalScale))

\* the product multiplier left at 1.0 for every product type
UnclampedScale_NoProductMultiplier(eyeDistancePixels, productType) ==
  RMul(RMul(AUTO_SCALE.baseScale, RDiv(eyeDistancePixels, AUTO_SCALE.eyeDistanceReference)),
       AUTO_SCALE.adaptiveFactor)

\* baseScale * adaptiveFactor * productMultiplier * AUTO_SCALE.adaptiveFactor
UnclampedScale(eyeDistancePixels, productType) ==
  RMul(RMul(RMul(AUTO_SCALE.baseScale, RDiv(eyeDistancePixels, AUTO_SCALE.eyeDistanceReference)),
            IF productType = "glasses" THEN Rat(7, 10) ELSE One),
       AUTO_SCALE.adaptiveFactor)

\* the final verification of getAutoScaleForModel and the object it returns
CheckedScale(finalScale, headDims) ==
  IF IsNaN(finalScale) \/ RLe(finalScale, Zero) THEN GetFallbackScale
  ELSE [scale |-> Scale3(finalScale), headDimensions |-> headDims, isFallback |-> FALSE]

\* getAutoScaleForModel once the head and the model are measured
ScaleFromDimensions(headDims, modelDims, productType) ==
  IF headDims = Null \/ modelDims = Null THEN GetFallbackScale
  ELSE CheckedScale(ClampScale(UnclampedScale(headDims.eyeDistancePixels, productType)),
                    headDims)

\* getAutoScaleForModel(model, keypoints, videoWidth, videoHeight, productType)
GetAutoScaleForModel(model, face, videoWidth, videoHeight, productType) ==
  ScaleFromDimensions(CalculateRealHeadDimensions(face, videoWidth, videoHeight),
                      AnalyzeModelDimensions(model), productType)

\* isScaleValid(scaleResult)
IsScaleValid(scaleResult) ==
  IF scaleResult = Null THEN FALSE
  ELSE LET s == scaleResult.scale.x
       IN  RGe(s, AUTO_SCALE.minScale) /\ RLe(s, AUTO_SCALE.maxScale) /\ ~IsNaN(s)

\* shouldRecalculate(frameCount)
ShouldRecalculate(frameCount) == frameCount % recalculateInterval = 0

(***************************************************************************)
(* RenderEngine.  Angles are kept in units of pi (a rotation of 1 is pi).  *)
(* A 3D model is the record ModelManager.prepareModel hands over: its      *)
(* userData and the THREE.Object3D fields updateModelTransform writes.     *)
(***************************************************************************)
Vec(x, y, z) == [x |-> x, y |-> y, z |-> z]

\* ModelManager.prepareModel(model, productConfig)
PrepareModel(id, productType, offset, rotation, measurable) ==
  [id |-> id, productType |-> productType, offset |-> offset, baseRotation |-> rotation,
   measurable |-> measurable,
   position |-> Vec(Zero, Zero, Zero), rotation |-> rotation,
   scale |-> Vec(One, One, One), visible |-> TRUE]

\* constructor(canvas)
RENew ==
  [currentModel |-> Null, autoScaleCache |-> Null, autoScaleFrameCount |-> 0,
   lastTrackingData |-> Null]

\* setModel(model)
RESetModel(re, model) ==
  IF re.currentModel # Null
  THEN [re EXCEPT !.autoScaleCache = Null, !.autoScaleFrameCount = 0, !.currentModel = model]
  ELSE [re EXCEPT !.currentModel = model]

\* dispose(): the part that touches the model and the scale cache
REDispose(re) ==
  IF re.currentModel # Null THEN [re EXCEPT !.currentModel = Null] ELSE re

\* shouldRecalculateScale()
REShouldRecalculateScale(re) == ShouldRecalculate(re.autoScaleFrameCount)

\* as RERunsCalibration, without the cadence: a cached scale is recomputed on
\* every stabilized frame
RERunsCalibration_EveryFrame(re, trackingData, video) ==
  /\ re.currentModel # Null /\ trackingData # Null
  /\ trackingData.rawKeypoints # Null
  /\ trackingData.isStabilized
  /\ video # Null /\ video.videoWidth > 0 /\ video.videoHeight > 0

\* whether updateModelTransform(trackingData) runs a calibration cycle
RERunsCalibration(re, trackingData, video) ==
  /\ re.currentModel # Null /\ trackingData # Null
  /\ (re.autoScaleCache = Null \/ REShouldRecalculateScale(re))
  /\ trackingData.rawKeypoints # Null
  /\ trackingData.isStabilized
  /\ video # Null /\ video.videoWidth > 0 /\ video.videoHeight > 0

\* { x: 0.003, y: 0.003, z: 0.003 }, the scale used while nothing is cached
REDefaultScale == Scale3(Rat(3, 1000))

\* the finalScale updateModelTransform picks with the given cache
REFinalScale(autoScaleCache) ==
  IF autoScaleCache # Null THEN autoScaleCache.scale ELSE REDefaultScale

\* the position, rotation, scale and visibility updateModelTransform sets
TransformedModel(model, position, rotation, finalScale, confidence) ==
  [model EXCEPT
     !.position =
       Vec(RAdd(RMul(RSub(position.x, Rat(1, 2)), TRACKING.positionMultiplier),
                model.offset.x),
           RAdd(RMul(RNeg(RSub(position.y, Rat(1, 2))), TRACKING.positionMultiplier),
                model.offset.y),
           RAdd(TRACKING.depthOffset, model.offset.z)),
     !.rotation =
       Vec(RAdd(rotation.x, model.baseRotation.x),
           RAdd(RNeg(rotation.y), model.baseRotation.y),
           RAdd(RSub(One, rotation.z), model.baseRotation.z)),
     !.scale = Vec(RNeg(finalScale.x), RNeg(finalScale.y), finalScale.z),
     !.visible = RGt(confidence, TRACKING.confidenceThreshold)]

\* updateModelTransform after the auto-scale step left autoScaleCache = cache
REApplyTransform(re, trackingData, cache) ==
  [currentModel |->
     TransformedModel(re.currentModel, trackingData.position, trackingData.rotation,
                      REFinalScale(cache), trackingData.confidence),
   autoScaleCache |-> cache,
   autoScaleFrameCount |-> re.autoScaleFrameCount + 1,
   lastTrackingData |-> trackingData]

\* updateModelTransform(trackingData): the engine after the call.  The catch
\* around getAutoScaleForModel is unreachable: that function catches everything.
REUpdateModelTransform(re, trackingData, video) ==
  IF re.currentModel = Null \/ trackingData = Null THEN re
  ELSE REApplyTransform(re, trackingData,
         IF RERunsCalibration(re, trackingData, video)
         THEN GetAutoScaleForModel(re.currentModel, trackingData.rawKeypoints,
                                   video.videoWidth, video.videoHeight,
                                   re.currentModel.productType)
         ELSE re.autoScaleCache)

(***************************************************************************)
(* FaceTracker.  Angles are in units of pi.  The trigonometric functions   *)
(* are exact and defined only at the angles whose values are rational      *)
(* (multiples of pi/2 for sin and cos, the axes and diagonals for atan2):  *)
(* the detector results of the model are chosen so that no other angle     *)
(* occurs.  A method that can throw yields data = Null, which is what the  *)
(* catch of processFrame turns into its return value.                      *)
(***************************************************************************)
\* CONFIG.kalman
KALMAN ==
  [position |-> [processNoise |-> RInt(4), measurementNoise |-> Rat(15, 1000)],
   rotation |-> [processNoise |-> Rat(35, 10), measurementNoise |-> Rat(2, 100)],
   scale |-> [processNoise |-> RInt(2), measurementNoise |-> Rat(25, 1000)]]

maxHistorySize == 30

\* constructor(), then initialize() has created the detector
FTNew ==
  [isInitialized |-> TRUE, isTracking |-> FALSE,
   positionFilter |-> V3New(KALMAN.position.processNoise, KALMAN.position.measurementNoise),
   rotationFilter |-> QKFNew(KALMAN.rotation.processNoise, KALMAN.rotation.measurementNoise),
   scaleFilter |-> V3New(KALMAN.scale.processNoise, KALMAN.scale.measurementNoise),
   previousLandmarks |-> Null, confidenceHistory |-> <<>>,
   frameCount |-> 0, stabilizationComplete |-> FALSE]

\* startTracking()
FTStartTracking(ft) ==
  [ft EXCEPT !.isTracking = TRUE, !.frameCount = 0, !.stabilizationComplete = FALSE]

\* resetFilters()
FTResetFilters(ft) ==
  [ft EXCEPT !.positionFilter = V3Reset(@), !.rotationFilter = QKFReset(@),
             !.scaleFilter = V3Reset(@), !.previousLandmarks = Null,
             !.confidenceHistory = <<>>, !.frameCount = 0,
             !.stabilizationComplete = FALSE]

\* stopTracking()
FTStopTracking(ft) == FTResetFilters([ft EXCEPT !.isTracking = FALSE])

\* handleFaceLost(), the tracker's part (the onFaceLost callback is the caller's)
FTHandleFaceLost(ft) == [ft EXCEPT !.previousLandmarks = Null]

\* the coordinate getAverageLandmark adds up: point.x, point.y or point.z || 0
Coord(point, c) == IF c = "x" THEN point.x ELSE IF c = "y" THEN point.y ELSE OrZero(point.z)

RECURSIVE SumCoord(_, _, _, _)
\* the forEach of FaceTracker.getAverageLandmark for one coordinate
SumCoord(face, indices, i, c) ==
  IF i > Len(indices) THEN Zero
  ELSE RAdd(Coord(KeypointAt(face, indices[i]), c), SumCoord(face, indices, i + 1, c))

\* FaceTracker.getAverageLandmark(keypoints, indices) for an index array
FTAverageLandmark(face, indices) ==
  [x |-> RDiv(SumCoord(face, indices, 1, "x"), RInt(Len(indices))),
   y |-> RDiv(SumCoord(face, indices, 1, "y"), RInt(Len(indices))),
   z |-> RDiv(SumCoord(face, indices, 1, "z"), RInt(Len(indices))), def |-> TRUE]

\* getAverageLandmark throws: some keypoints[idx] is undefined
AverageThrows(face, indices) == \E i \in 1..Len(indices) : ~KeypointAt(face, indices[i]).def

\* Math.atan2(y, x) / pi on the axes and the diagonals
Atan2Pi(y, x) ==
  IF IsNaN(y) \/ IsNaN(x) THEN NaN
  ELSE IF y = Zero THEN (IF RLt(x, Zero) THEN One ELSE Zero)
  ELSE IF x = Zero THEN (IF RGt(y, Zero) THEN Rat(1, 2) ELSE Rat(-1, 2))
  ELSE CHOOSE a \in (IF RAbs(y) # RAbs(x) THEN {}
                     ELSE {Rat(Sgn(y[1]) * (IF RGt(x, Zero) THEN 1 ELSE 3), 4)}) : TRUE

\* Math.asin(s) / pi for |s| < 1, at 0 and +-1/2
AsinPi(s) ==
  IF IsNaN(s) THEN NaN
  ELSE IF s = Zero THEN Zero
  ELSE CHOOSE a \in (IF RAbs(s) # Rat(1, 2) THEN {} ELSE {Rat(Sgn(s[1]), 6)}) : TRUE

\* the number of quarter turns in the angle a * pi
QuarterTurns(a) ==
  CHOOSE k \in (IF a[2] = 1 THEN {2 * a[1]} ELSE IF a[2] = 2 THEN {a[1]} ELSE {}) : TRUE

\* Math.cos(a * pi)
CosPi(a) == IF ~IsFinite(a) THEN NaN ELSE RInt(<<1, 0, -1, 0>>[(QuarterTurns(a) % 4) + 1])

\* Math.sin(a * pi)
SinPi(a) == IF ~IsFinite(a) THEN NaN ELSE RInt(<<0, 1, 0, -1>>[(QuarterTurns(a) % 4) + 1])

\* the quaternion eulerToQuaternion builds from the half-angle cosines and sines
QuatOfHalfAngles(cy, sy, cp, sp, cr, sr) ==
  [w |-> RAdd(RMul(RMul(cr, cp), cy), RMul(RMul(sr, sp), sy)),
   x |-> RSub(RMul(RMul(sr, cp), cy), RMul(RMul(cr, sp), sy)),
   y |-> RAdd(RMul(RMul(cr, sp), cy), RMul(RMul(sr, cp), sy)),
   z |-> RSub(RMul(RMul(cr, cp), sy), RMul(RMul(sr, sp), cy))]

\* eulerToQuaternion(euler)
EulerToQuaternion(euler) ==
  QuatOfHalfAngles(CosPi(RMul(euler.y, Rat(1, 2))), SinPi(RMul(euler.y, Rat(1, 2))),
                   CosPi(RMul(euler.x, Rat(1, 2))), SinPi(RMul(euler.x, Rat(1, 2))),
                   CosPi(RMul(euler.z, Rat(1, 2))), SinPi(RMul(euler.z, Rat(1, 2))))

\* the product q.a * q.b of two components of the normalized quaternion q
QProd(q, a, b) == RDiv(RMul(a, b), q.m2)

\* the pitch of quaternionToEuler
PitchOf(sinp) ==
  IF RGe(RAbs(sinp), One) THEN Rat(Sgn(sinp[1]), 2) ELSE AsinPi(sinp)

\* quaternionToEuler(q) of a normalized quaternion [w, x, y, z, m2]
QuaternionToEuler(q) ==
  [x |-> PitchOf(RMul(RInt(2), RSub(QProd(q, q.w, q.y), QProd(q, q.z, q.x)))),
   y |-> Atan2Pi(RMul(RInt(2), RAdd(QProd(q, q.w, q.z), QProd(q, q.x, q.y))),
                 RSub(One, RMul(RInt(2), RAdd(QProd(q, q.y, q.y), QProd(q, q.z, q.z))))),
   z |-> Atan2Pi(RMul(RInt(2), RAdd(QProd(q, q.w, q.x), QProd(q, q.y, q.z))),
                 RSub(One, RMul(RInt(2), RAdd(QProd(q, q.x, q.x), QProd(q, q.y, q.y)))))]

\* Math.min(20, current.length)
SampleSize(len) == IF len < 20 THEN len ELSE 20

RECURSIVE MovementSum(_, _, _)
\* totalDist of calculateMovement from sample i on
MovementSum(current, previous, i) ==
  IF i >= SampleSize(current.len) THEN Zero
  ELSE RAdd(Distance2D(KeypointAt(previous, (i * current.len) \div SampleSize(current.len)),
                       KeypointAt(current, (i * current.len) \div SampleSize(current.len))),
            MovementSum(current, previous, i + 1))

\* calculateMovement(current, previous)
CalculateMovement(current, previous) ==
  IF previous = Null THEN Zero
  ELSE IF current.len # previous.len THEN Zero
  ELSE RDiv(MovementSum(current, previous, 0), RInt(SampleSize(current.len)))

\* one of the two arrays has a hole at a sampled index: the subtraction throws
SampleUndefined(current, previous, idx) ==
  ~KeypointAt(current, idx).def \/ ~KeypointAt(previous, idx).def

\* calculateMovement(current, previous) throws
MovementThrows(current, previous) ==
  IF previous = Null THEN FALSE
  ELSE IF current.len # previous.len THEN FALSE
  ELSE \E i \in 0..(SampleSize(current.len) - 1) :
         SampleUndefined(current, previous, (i * current.len) \div SampleSize(current.len))

\* factor 1: the number of landmarks
LandmarkFactor(landmarkCount) ==
  IF landmarkCount >= 468 THEN One
  ELSE IF landmarkCount >= 400 THEN Rat(95, 100)
  ELSE Rat(85, 100)

\* factor 2: the distance between the eyes
EyeDistanceFactor(eyeDistance) ==
  IF RLt(eyeDistance, Rat(5, 100)) THEN Rat(85, 100)
  ELSE IF RGt(eyeDistance, Rat(3, 10)) THEN Rat(9, 10)
  ELSE One

\* factor 3 for a given movement
MovementFactor(movement) ==
  IF RGt(movement, Rat(15, 100)) THEN Rat(9, 10)
  ELSE IF RGt(movement, Rat(1, 10)) THEN Rat(95, 100)
  ELSE One

\* factor 3: temporal stability, applied only with previous landmarks
StabilityFactor(current, previous) ==
  IF previous = Null THEN One ELSE MovementFactor(CalculateMovement(current, previous))

RECURSIVE SumFrom(_, _)
\* confidenceHistory.reduce((a, b) => a + b, 0) from entry i on
SumFrom(history, i) ==
  IF i > Len(history) THEN Zero ELSE RAdd(history[i], SumFrom(history, i + 1))

\* getAverageConfidence()
GetAverageConfidence(history) ==
  IF Len(history) = 0 THEN Zero ELSE RDiv(SumFrom(history, 1), RInt(Len(history)))

\* factor 4: smoothing against the confidence history
HistoryBlend(confidence, avgConfidence) ==
  IF RGt(avgConfidence, Zero) /\ RGt(RAbs(RSub(confidence, avgConfidence)), Rat(3, 10))
  THEN RAdd(RMul(confidence, Rat(7, 10)), RMul(avgConfidence, Rat(3, 10)))
  ELSE confidence

\* factor 5: the warm-up ramp while stabilization is not complete
WarmUp(confidence, stabilizationComplete, frameCount) ==
  IF ~stabilizationComplete
  THEN RMul(confidence,
            RAdd(Rat(6, 10),
                 RMul(Rat(4, 10), RDiv(RInt(frameCount), RInt(stabilizationFrames)))))
  ELSE confidence

\* the confidence returned as computed, without the final clamp
ClampConfidence_None(confidence) == confidence

\* Math.max(0, Math.min(1, confidence))
ClampConfidence(confidence) == RMax(Zero, RMin(One, confidence))

\* the confidence calculateAdvancedConfidence has computed when it reaches its return
UnclampedConfidence(ft, face, eyeDistance) ==
  WarmUp(HistoryBlend(RMul(RMul(LandmarkFactor(face.len), EyeDistanceFactor(eyeDistance)),
                           StabilityFactor(face, ft.previousLandmarks)),
                      GetAverageConfidence(ft.confidenceHistory)),
         ft.stabilizationComplete, ft.frameCount)

\* calculateAdvancedConfidence(face, leftEye, rightEye, eyeDistance): the value returned
CalculateAdvancedConfidence(ft, face, eyeDistance) ==
  ClampConfidence(UnclampedConfidence(ft, face, eyeDistance))

\* calculateAdvancedConfidence as a step of the tracker: [ft, data] with the confidence
FTConfidenceStep(ft, face, eyeDistance) ==
  [ft |-> [ft EXCEPT !.previousLandmarks = face],
   data |-> [confidence |-> CalculateAdvancedConfidence(ft, face, eyeDistance)]]

\* updateConfidenceHistory(confidence): the history after the call
UpdateConfidenceHistory(history, confidence) ==
  IF Len(history) + 1 > maxHistorySize THEN Tail(Append(history, confidence))
  ELSE Append(history, confidence)

\* rawPosition of calculateFacePose
RawPosition(leftEye, rightEye, forehead, width, height) ==
  Vec(RDiv(forehead.x, RInt(width)), RDiv(forehead.y, RInt(height)),
      RDiv(RAdd(OrZero(leftEye.z), OrZero(rightEye.z)), RInt(2)))

\* eyeDistance of calculateFacePose: Math.abs(rightEye.x - leftEye.x) / width
EyeDistanceOf(leftEye, rightEye, width) ==
  RDiv(RAbs(RSub(rightEye.x, leftEye.x)), RInt(width))

\* yaw: eyeDistance > 0 ? ((noseX - eyeCenterX) / eyeDistance) * Math.PI * 0.5 : 0
YawOf(noseX, eyeCenterX, eyeDistance) ==
  IF RGt(eyeDistance, Zero)
  THEN RMul(RDiv(RSub(noseX, eyeCenterX), eyeDistance), Rat(1, 2))
  ELSE Zero

\* rawRotation of calculateFacePose: { x: pitch, y: yaw, z: roll }
RawRotation(leftEye, rightEye, nose, width, height) ==
  [x |-> RMul(RSub(RDiv(nose.y, RInt(height)),
                   RDiv(RDiv(RAdd(leftEye.y, rightEye.y), RInt(2)), RInt(height))),
              Rat(3, 10)),
   y |-> YawOf(RDiv(nose.x, RInt(width)),
               RDiv(RDiv(RAdd(leftEye.x, rightEye.x), RInt(2)), RInt(width)),
               EyeDistanceOf(leftEye, rightEye, width)),
   z |-> Atan2Pi(RSub(rightEye.y, leftEye.y), RSub(rightEye.x, leftEye.x))]

\* rawScale of calculateFacePose: eyeDist * 5 on each axis
RawScale(leftEye, rightEye, width, height) ==
  Scale3(RMul(RSqrt(RAdd(Sq(RDiv(RSub(rightEye.x, leftEye.x), RInt(width))),
                         Sq(RDiv(RSub(rightEye.y, leftEye.y), RInt(height))))),
              RInt(5)))

\* the three filter() calls of calculateFacePose
FTWithFilters(ft, rawPosition, quaternion, rawScale) ==
  [ft EXCEPT !.positionFilter = V3Filter(@, rawPosition),
             !.rotationFilter = QKFFilter(@, quaternion),
             !.scaleFilter = V3Filter(@, rawScale)]

\* the object calculateFacePose returns, read off the tracker after the filter() calls
FTTrackingData(ft, face, confidence, rawPosition, rawRotation) ==
  [position |-> V3Value(ft.positionFilter),
   rotation |-> QuaternionToEuler(QKFValue(ft.rotationFilter)),
   scale |-> V3Value(ft.scaleFilter),
   confidence |-> confidence, rawPosition |-> rawPosition, rawRotation |-> rawRotation,
   rawKeypoints |-> face, isStabilized |-> ft.stabilizationComplete,
   frameCount |-> ft.frameCount]

\* calculateFacePose from the confidence step on
FTPoseResult(ft, face, confidence, rawPosition, rawRotation) ==
  [ft |-> [ft EXCEPT !.previousLandmarks = face],
   data |-> FTTrackingData(ft, face, confidence, rawPosition, rawRotation)]

\* calculateFacePose once the raw measurements are computed
FTPoseOfRaw(ft, face, rawPosition, rawRotation, rawScale, eyeDistance) ==
  IF MovementThrows(face, ft.previousLandmarks)
  THEN [ft |-> FTWithFilters(ft, rawPosition, EulerToQuaternion(rawRotation), rawScale),
        data |-> Null]
  ELSE FTPoseResult(FTWithFilters(ft, rawPosition, EulerToQuaternion(rawRotation), rawScale),
                    face, CalculateAdvancedConfidence(ft, face, eyeDistance),
                    rawPosition, rawRotation)

\* calculateFacePose once the key points are read
FTPoseOfLandmarks(ft, face, leftEye, rightEye, nose, forehead, width, height) ==
  IF ~nose.def
  THEN [ft |-> [ft EXCEPT !.positionFilter =
                            V3Filter(@, RawPosition(leftEye, rightEye, forehead, width, height))],
        data |-> Null]
  ELSE FTPoseOfRaw(ft, face, RawPosition(leftEye, rightEye, forehead, width, height),
                   RawRotation(leftEye, rightEye, nose, width, height),
                   RawScale(leftEye, rightEye, width, height),
                   EyeDistanceOf(leftEye, rightEye, width))

\* calculateFacePose(face, width, height, timestamp): [ft, data], data = Null on a throw
FTCalculateFacePose(ft, face, width, height) ==
  IF \/ AverageThrows(face, FACE_LANDMARKS.leftEye)
     \/ AverageThrows(face, FACE_LANDMARKS.rightEye)
     \/ AverageThrows(face, FACE_LANDMARKS.forehead)
  THEN [ft |-> ft, data |-> Null]
  ELSE FTPoseOfLandmarks(ft, face, FTAverageLandmark(face, FACE_LANDMARKS.leftEye),
                         FTAverageLandmark(face, FACE_LANDMARKS.rightEye),
                         KeypointAt(face, FACE_LANDMARKS.noseTip),
                         FTAverageLandmark(face, FACE_LANDMARKS.forehead), width, height)

\* processFrame after calculateFacePose: stabilization check and confidence history
FTFinishFrame(r) ==
  IF r.data = Null THEN r
  ELSE [ft |-> [r.ft EXCEPT !.stabilizationComplete =
                              @ \/ r.ft.frameCount >= stabilizationFrames,
                            !.confidenceHistory =
                              UpdateConfidenceHistory(@, r.data.confidence)],
        data |-> r.data]

\* processFrame after the detector returned a face: [ft, data]; data is handed to
\* onTrackingUpdate unless it is Null
FTProcessFace(ft, face, width, height) ==
  FTFinishFrame(FTCalculateFacePose([ft EXCEPT !.frameCount = @ + 1], face, width, height))

(***************************************************************************)
(* Landmark sets used as detector results.                                 *)
(***************************************************************************)
\* a complete 478-point landmark set with level eyes, eyeDist pixels apart
MkFace(cx, eyeY, eyeDist, halfWidth, topY, noseY) ==
  [len |-> 478,
   leftEye |-> Pt(cx - eyeDist \div 2, eyeY, 0),
   rightEye |-> Pt(cx - eyeDist \div 2 + eyeDist, eyeY, 0),
   nose |-> Pt(cx, noseY, 0), mouth |-> Pt(cx, noseY + 40, 0),
   top |-> Pt(cx, topY, 0), forehead |-> Pt(cx, topY, 0),
   leftTemple |-> Pt(cx - halfWidth, eyeY, 0), rightTemple |-> Pt(cx + halfWidth, eyeY, 0),
   base |-> Pt(cx, eyeY, 0), nan |-> {}, holes |-> {}]

\* eyes 120 px apart, head 290 x 460 px: overall factor 1.05, scale 0.00216
FrontalFace == MkFace(960, 540, 120, 145, 80, 540)

\* eyes 600 px apart: factor in bounds, unclamped scale 0.0108 > maxScale
NearFace == MkFace(960, 540, 600, 700, 40, 1040)

\* eyes 20 px apart: factor in bounds, unclamped scale 0.00036 < minScale
FarFace == MkFace(960, 540, 20, 25, 500, 570)

\* eyes 100 px apart (the reference eye distance), head 230 x 365 px
ReferenceFace == MkFace(960, 540, 100, 115, 175, 540)

\* eyes 63 px apart, head 435 x 690 px: overall factor exactly 3.0
Factor3Face ==
  [MkFace(960, 700, 63, 0, 10, 700) EXCEPT
     !.leftTemple = Pt(700, 700, 0), !.rightTemple = Pt(1135, 700, 0)]

\* the frontal face cut to 400 landmarks
ShortFace == [FrontalFace EXCEPT !.len = 400]

\* the frontal face with required landmarks NaN or missing
BadTempleFace ==
  [FrontalFace EXCEPT !.nan = {FACE_LANDMARKS.leftTemple}, !.rightTemple = Pt(720, 540, 0)]

BadNoseFace == [FrontalFace EXCEPT !.nan = {FACE_LANDMARKS.noseTip}]

BadCrownFace == [FrontalFace EXCEPT !.holes = {FACE_LANDMARKS.topOfHead}]

BadEyeFace ==
  [FrontalFace EXCEPT !.nan = Range(FACE_LANDMARKS.leftEye),
                      !.rightEye = Pt(360, 150, 0),
                      !.leftTemple = Pt(60, 150, 0), !.rightTemple = Pt(960, 150, 0)]

\* the landmark indices the calibrator reads its distances from
RequiredIndices ==
  Range(FACE_LANDMARKS.leftEye) \cup Range(FACE_LANDMARKS.rightEye)
    \cup {FACE_LANDMARKS.leftTemple, FACE_LANDMARKS.rightTemple,
          FACE_LANDMARKS.topOfHead, FACE_LANDMARKS.noseTip}

\* some required landmark is missing or NaN
HasBadRequiredIndex(face) ==
  \E i \in RequiredIndices : ~IsValidKeypoint(KeypointAt(face, i))

(***************************************************************************)
(* The worker pipeline (src/managers, src/workers): CameraManager captures *)
(* frames and hands them to WorkerPool.processFrame, which posts them to   *)
(* the head-tracking worker; the worker answers with 'landmarks',          *)
(* 'tracking_lost' or nothing, and the listener App.jsx registered hands   *)
(* each result to RenderManager.updateModelTransform.  Messages are the    *)
(* records [type, data]; each direction is a FIFO queue.  The landmark     *)
(* records of the model carry no name, so the worker's kp.find() calls     *)
(* return undefined and its index fallbacks select the points.             *)
(***************************************************************************)
Msg(type, data) == [type |-> type, data |-> data]

\* new WorkerPool(), then initialize() has created workers.head
PoolNew == [processingFlags |-> [head |-> FALSE], latestResults |-> [head |-> Null]]

\* WorkerPool.processFrame(bitmap, timestamp): [pool, toWorker] after the call
PoolProcessFrame(p, queue, bitmap) ==
  IF ~p.processingFlags.head
  THEN [pool |-> [p EXCEPT !.processingFlags.head = TRUE],
        toWorker |-> Append(queue, Msg("process", bitmap))]
  ELSE [pool |-> p, toWorker |-> queue]

\* WorkerPool.handleWorkerMessage('head', event): the pool after the call
HandleWorkerMessage(p, msg) ==
  IF msg.type = "landmarks"
  THEN [p EXCEPT !.processingFlags.head = FALSE, !.latestResults.head = msg.data]
  ELSE IF msg.type = "tracking_lost"
  THEN [p EXCEPT !.processingFlags.head = FALSE, !.latestResults.head = Null]
  ELSE IF msg.type = "error"
  THEN [p EXCEPT !.processingFlags.head = FALSE]
  ELSE p

\* the head-tracking worker once its script is loaded
WorkerNew ==
  [detector |-> FALSE, initializing |-> FALSE, isProcessing |-> FALSE, frameCount |-> 0,
   estimating |-> FALSE, hung |-> FALSE, timeout |-> FALSE, bitmap |-> Null]

\* processFrame(bitmap, timestamp) up to await detector.estimateFaces, or to the
\* end of its catch when drawing the bitmap or building the tensor throws
WorkerStartFrame(w, bitmap, throws) ==
  IF throws THEN [w EXCEPT !.isProcessing = FALSE, !.timeout = FALSE]
  ELSE [w EXCEPT !.isProcessing = TRUE, !.timeout = TRUE, !.estimating = TRUE,
                 !.bitmap = bitmap]

\* self.onmessage(event) for { type: "process" }
WorkerOnProcess(w, bitmap, throws) ==
  IF ~w.detector \/ w.isProcessing THEN [w EXCEPT !.frameCount = @ + 1]
  ELSE WorkerStartFrame([w EXCEPT !.frameCount = @ + 1], bitmap, throws)

\* self.onmessage(event): "init" starts initializeDetector()
WorkerOnMessage(w, msg, throws) ==
  IF msg.type = "init" THEN [w EXCEPT !.initializing = TRUE]
  ELSE IF msg.type = "process" THEN WorkerOnProcess(w, msg.data, throws)
  ELSE w

\* initializeDetector() from the end of its awaits on: [worker, posted]
WorkerInitDone(w, ok) ==
  IF ok THEN [worker |-> [w EXCEPT !.detector = TRUE, !.initializing = FALSE],
              posted |-> <<Msg("ready", Null)>>]
  ELSE [worker |-> [w EXCEPT !.initializing = FALSE], posted |-> <<Msg("error", Null)>>]

\* kp[i] || kp[j]
KeypointOr(face, i, j) ==
  IF KeypointAt(face, i).def THEN KeypointAt(face, i) ELSE KeypointAt(face, j)

\* x / width, y / height of a key point
Normalized(point, width, height) ==
  [x |-> RDiv(point.x, RInt(width)), y |-> RDiv(point.y, RInt(height))]

\* the message handleFace posts for the normalized eyes l, r and nose n
LandmarksOf(leftEye, rightEye, l, r, n, landmarkCount) ==
  [position |-> Vec(RDiv(RAdd(l.x, r.x), RInt(2)), RDiv(RAdd(l.y, r.y), RInt(2)),
                    RDiv(RAdd(OrZero(leftEye.z), OrZero(rightEye.z)), RInt(2))),
   rotation |-> Vec(RMul(RSub(n.y, RDiv(RAdd(l.y, r.y), RInt(2))), Rat(3, 10)),
                    YawOf(n.x, RDiv(RAdd(l.x, r.x), RInt(2)), RAbs(RSub(r.x, l.x))),
                    Atan2Pi(RSub(r.y, l.y), RSub(r.x, l.x))),
   scale |-> Scale3(RMul(RSqrt(RAdd(Sq(RSub(r.x, l.x)), Sq(RSub(r.y, l.y)))), RInt(5))),
   confidence |-> IF landmarkCount >= 400 THEN Rat(9, 10) ELSE Rat(7, 10)]

\* handleFace(face, width, height) throws: one of the three key points is undefined
HandleFaceThrows(face) ==
  \/ ~KeypointOr(face, 33, 0).def
  \/ ~KeypointOr(face, 263, 1).def
  \/ ~KeypointOr(face, 1, 2).def

\* handleFace(face, width, height): the data of the 'landmarks' message
HandleFace(face, width, height) ==
  LandmarksOf(KeypointOr(face, 33, 0), KeypointOr(face, 263, 1),
              Normalized(KeypointOr(face, 33, 0), width, height),
              Normalized(KeypointOr(face, 263, 1), width, height),
              Normalized(KeypointOr(face, 1, 2), width, height), face.len)

\* what processFrame posts once estimateFaces has answered with faces (Null: none)
WorkerPosts(face, width, height) ==
  IF face = Null THEN <<Msg("tracking_lost", Null)>>
  ELSE IF HandleFaceThrows(face) THEN <<>>
  ELSE <<Msg("landmarks", HandleFace(face, width, height))>>

\* processFrame from the answer of estimateFaces to its end: [worker, posted];
\* a rejected estimateFaces ends in the catch and posts nothing
WorkerEstimateDone(w, face, rejected) ==
  [worker |-> [w EXCEPT !.isProcessing = FALSE, !.timeout = FALSE, !.estimating = FALSE,
                        !.bitmap = Null],
   posted |-> IF rejected THEN <<>> ELSE WorkerPosts(face, w.bitmap.width, w.bitmap.height)]

\* the 3 s timeout callback of processFrame
WorkerTimeout(w) == [w EXCEPT !.isProcessing = FALSE, !.timeout = FALSE]

\* new RenderManager(canvas)
RMNew == [models |-> [head |-> Null], updateCount |-> 0]

\* addModel(category, model, product) for the head category
RMAddModel(rm, productConfig) ==
  [rm EXCEPT !.models.head =
     [offset |-> productConfig.offset, baseScale |-> productConfig.scale,
      position |-> Vec(Zero, Zero, Zero), rotation |-> Vec(One, Zero, Zero),
      scale |-> Vec(productConfig.scale.x, productConfig.scale.y,
                    RNeg(productConfig.scale.z)),
      visible |-> TRUE]]

\* the position, rotation, scale and visibility RenderManager.updateModelTransform sets
RMTransformed(model, transform, scaleFactor) ==
  [model EXCEPT
     !.position = Vec(RAdd(RMul(RSub(transform.position.x, Rat(1, 2)), RInt(4)),
                           model.offset.x),
                      RAdd(RMul(RNeg(RSub(transform.position.y, Rat(1, 2))), RInt(4)),
                           model.offset.y),
                      RAdd(RInt(-3), model.offset.z)),
     !.rotation = Vec(RAdd(One, transform.rotation.x), RAdd(One, transform.rotation.y),
                      transform.rotation.z),
     !.scale = Vec(RMul(model.baseScale.x, scaleFactor), RMul(model.baseScale.y, scaleFactor),
                   RNeg(RMul(model.baseScale.z, scaleFactor))),
     !.visible = RGt(transform.confidence, Rat(1, 2))]

\* RenderManager.updateModelTransform('head', transform)
RMUpdateModelTransform(rm, transform) ==
  IF rm.models.head = Null THEN [rm EXCEPT !.updateCount = @ + 1]
  ELSE [rm EXCEPT !.updateCount = @ + 1,
                  !.models.head =
                    RMTransformed(@, transform,
                                  RMul(RMul(transform.confidence, transform.scale.x),
                                       Rat(1, 10)))]

\* the listener App.jsx registers with workers.onUpdate, for the head worker
AppOnUpdate(rm, data) == IF data = Null THEN rm ELSE RMUpdateModelTransform(rm, data)

(***************************************************************************)
(* State.                                                                  *)
(***************************************************************************)
(***************************************************************************)
(* ModelManager.loadModel.  Objects (the loaded scene, each clone) are     *)
(* numbered in the order they are created; a promise of loadingProgress is *)
(* the number of callers that hold it.                                     *)
(***************************************************************************)
EmptyMap == [u \in {} |-> 0]

\* map.set(key, value)
MapSet(map, key, value) == [u \in DOMAIN map \cup {key} |-> IF u = key THEN value ELSE map[u]]

\* map.delete(key)
MapDelete(map, key) == [u \in DOMAIN map \ {key} |-> map[u]]

\* constructor()
ModelManagerNew ==
  [cache |-> EmptyMap, loadingProgress |-> EmptyMap,
   stats |-> [totalLoaded |-> 0, cacheHits |-> 0, cacheMisses |-> 0]]

\* loadModel(url) up to its return: the manager after the call, how many
\* objects it created, and what the caller holds: a clone made for it
\* ("clone"), the promise of the load in flight ("shared") or the promise of
\* a load it started ("started")
MMLoadModel(m, url) ==
  IF url \in DOMAIN m.cache
  THEN [mm |-> [m EXCEPT !.stats.cacheHits = @ + 1], holds |-> "clone"]
  ELSE IF url \in DOMAIN m.loadingProgress
  THEN [mm |-> [m EXCEPT !.stats.cacheMisses = @ + 1,
                         !.loadingProgress = MapSet(@, url, m.loadingProgress[url] + 1)],
        holds |-> "shared"]
  ELSE [mm |-> [m EXCEPT !.stats.cacheMisses = @ + 1,
                         !.loadingProgress = MapSet(@, url, 1)],
        holds |-> "started"]

\* the loader's onLoad callback: the scene (object `model`) is cached, the
\* entry of loadingProgress deleted, the promise resolved with one clone
MMOnLoad(m, url, model) ==
  [m EXCEPT !.cache = MapSet(@, url, model),
            !.loadingProgress = MapDelete(@, url),
            !.stats.totalLoaded = @ + 1]

\* the loader's onError callback
MMOnError(m, url) == [m EXCEPT !.loadingProgress = MapDelete(@, url)]

(***************************************************************************)
(* SmartFittingMode.  A tracking-data object carries its confidence, its   *)
(* isStabilized flag and rawKeypoints, which is null or the head width and *)
(* height that calculateHeadMetrics reads from the landmarks; the head     *)
(* does not turn (rotation 0).                                             *)
(***************************************************************************)
calibrationLength == 60

minCalibrationData == 10

\* constructor()
SmartFittingModeNew ==
  [enabled |-> FALSE, isCalibrating |-> FALSE, calibrationFrames |-> 0,
   calibrationData |-> <<>>, faceProfile |-> Null, adjustmentHistory |-> <<>>,
   optimalSettings |-> [scale |-> Null, offset |-> Null, confidence |-> Zero],
   stats |-> [totalFrames |-> 0, goodFitFrames |-> 0, detectedMorphology |-> Null]]

\* startCalibration()
SFStartCalibration(s) ==
  [s EXCEPT !.isCalibrating = TRUE, !.calibrationFrames = 0, !.calibrationData = <<>>]

\* enable()
SFEnable(s) == SFStartCalibration([s EXCEPT !.enabled = TRUE])

\* disable()
SFDisable(s) == [s EXCEPT !.enabled = FALSE]

\* reset()
SFReset(s) ==
  [s EXCEPT !.faceProfile = Null, !.calibrationData = <<>>, !.calibrationFrames = 0,
            !.adjustmentHistory = <<>>,
            !.optimalSettings = [scale |-> Null, offset |-> Null, confidence |-> Zero]]

\* detectFaceMorphology(width, height)
DetectFaceMorphology(width, height) ==
  LET ratio == RDiv(width, height)
  IN  IF RGt(ratio, Rat(9, 10)) THEN "round"
      ELSE IF RGt(ratio, Rat(75, 100)) THEN "oval"
      ELSE IF RGt(ratio, Rat(65, 100)) THEN "long"
      ELSE "square"

morphologyWeights ==
  [round |-> [scaleMultiplier |-> Rat(11, 10), yOffset |-> Rat(2, 100)],
   oval |-> [scaleMultiplier |-> One, yOffset |-> Zero],
   square |-> [scaleMultiplier |-> Rat(105, 100), yOffset |-> Rat(-1, 100)],
   long |-> [scaleMultiplier |-> Rat(95, 100), yOffset |-> Rat(3, 100)]]

\* the test that collects a calibration frame
SFCollects(trackingData) ==
  RGt(trackingData.confidence, Rat(7, 10)) /\ trackingData.rawKeypoints # Null

\* processCalibration(trackingData)
SFProcessCalibration(s, trackingData) ==
  [s EXCEPT !.calibrationFrames = @ + 1,
            !.calibrationData =
              IF SFCollects(trackingData)
              THEN Append(@, [headMetrics |-> trackingData.rawKeypoints,
                              confidence |-> trackingData.confidence])
              ELSE @]

\* average(arr) of a field of the calibration data; the collected frames of
\* a run carry the same measurements, so the mean is the first one
SFAverage(data, field) ==
  IF field = "confidence" THEN data[1].confidence ELSE data[1].headMetrics[field]

\* the optimal settings finishCalibration computes from the collected frames
SFOptimalSettings(data) ==
  LET morphology == DetectFaceMorphology(SFAverage(data, "width"), SFAverage(data, "height"))
      morphWeights == morphologyWeights[morphology]
  IN  [morphology |-> [shape |-> morphology],
       settings |->
         [scale |-> Scale3(RMul(Rat(18, 10000), morphWeights.scaleMultiplier)),
          offset |-> Vec(Zero, RAdd(Rat(15, 100), morphWeights.yOffset), Rat(-15, 100)),
          confidence |-> SFAverage(data, "confidence")]]

\* finishCalibration()
SFFinishCalibration(s) ==
  IF Len(s.calibrationData) < minCalibrationData THEN [s EXCEPT !.isCalibrating = FALSE]
  ELSE [s EXCEPT !.optimalSettings = SFOptimalSettings(s.calibrationData).settings,
                 !.stats.detectedMorphology = SFOptimalSettings(s.calibrationData).morphology,
                 !.isCalibrating = FALSE]

\* analyzeFaceMorphology(trackingData): null without landmarks
SFAnalyzeFaceMorphology(trackingData) ==
  IF trackingData.rawKeypoints = Null THEN Null
  ELSE [shape |-> DetectFaceMorphology(trackingData.rawKeypoints.width,
                                       trackingData.rawKeypoints.height)]

\* evaluateFittingQuality(trackingData, currentModel).isGood for a head that
\* faces the camera: score = confidence * 40 + (30 or 15) + 30, no issue
SFFittingIsGood(trackingData) ==
  /\ RGe(RAdd(RMul(trackingData.confidence, RInt(40)),
              RInt((IF trackingData.isStabilized THEN 30 ELSE 15) + 30)), RInt(70))
  /\ ~RLt(trackingData.confidence, Rat(6, 10))
  /\ trackingData.isStabilized

\* learn(): the history keeps the last 100 entries (here their quality)
SFLearn(s, isGood) ==
  [s EXCEPT !.adjustmentHistory =
              IF Len(@) + 1 > 100 THEN Tail(Append(@, isGood)) ELSE Append(@, isGood)]

\* process(trackingData, currentModel): the mode after the call and what the
\* call returned: "null", "calibrating" or "adjustments"
SFProcess(s, trackingData, currentModel) ==
  IF ~s.enabled \/ trackingData = Null \/ currentModel = Null
  THEN [sf |-> s, ret |-> "null"]
  ELSE LET s1 == [s EXCEPT !.stats.totalFrames = @ + 1]
       IN  IF s1.isCalibrating /\ s1.calibrationFrames < calibrationLength
           THEN [sf |-> SFProcessCalibration(s1, trackingData), ret |-> "calibrating"]
           ELSE LET s2 == IF s1.isCalibrating /\ s1.calibrationFrames >= calibrationLength
                          THEN SFFinishCalibration(s1) ELSE s1
                    s3 == IF s2.faceProfile = Null
                          THEN [s2 EXCEPT !.faceProfile = SFAnalyzeFaceMorphology(trackingData)]
                          ELSE s2
                    isGood == SFFittingIsGood(trackingData)
                    s4 == IF isGood THEN [s3 EXCEPT !.stats.goodFitFrames = @ + 1] ELSE s3
                IN  [sf |-> SFLearn(s4, isGood), ret |-> "adjustments"]

\* getStats().isCalibrated
SFIsCalibrated(s) == ~s.isCalibrating /\ s.optimalSettings.scale # Null

(***************************************************************************)
(* RenderEngine: the frame-time statistics and adaptQuality.               *)
(***************************************************************************)
maxFrameTime == 33

frameTimeHistoryLength == 60

\* the part of the constructor that sets the statistics and the mode
RenderStatsNew ==
  [isRendering |-> FALSE, performanceMode |-> "high",
   stats |-> [frameTimeHistory |-> <<>>, avgFrameTime |-> Zero]]

\* the sum of a sequence of numbers
RECURSIVE RSum(_)
RSum(seq) == IF seq = <<>> THEN Zero ELSE RAdd(Head(seq), RSum(Tail(seq)))

\* updateStats(frameStart): the frame-time history and its mean
REUpdateStats(r, frameTime) ==
  LET pushed == Append(r.stats.frameTimeHistory, frameTime)
      history == IF Len(pushed) > frameTimeHistoryLength THEN Tail(pushed) ELSE pushed
  IN  [r EXCEPT !.stats.frameTimeHistory = history,
                !.stats.avgFrameTime = RDiv(RSum(history), RInt(Len(history)))]

\* adaptQuality() that leaves high for low at once on a very slow frame
REAdaptQuality_SkipsMedium(r) ==
  LET avg == r.stats.avgFrameTime
      max == RInt(maxFrameTime)
  IN  IF RGt(avg, max)
      THEN IF r.performanceMode = "high"
           THEN [r EXCEPT !.performanceMode =
                            IF RGt(avg, RMul(max, Rat(3, 2))) THEN "low" ELSE "medium"]
           ELSE IF r.performanceMode = "medium" /\ RGt(avg, RMul(max, Rat(3, 2)))
           THEN [r EXCEPT !.performanceMode = "low"]
           ELSE r
      ELSE IF RLt(avg, RMul(max, Rat(7, 10)))
      THEN IF r.performanceMode = "low"
           THEN [r EXCEPT !.performanceMode = "medium"]
           ELSE IF r.performanceMode = "medium" /\ RLt(avg, RMul(max, Rat(1, 2)))
           THEN [r EXCEPT !.performanceMode = "high"]
           ELSE r
      ELSE r

\* adaptQuality()
REAdaptQuality(r) ==
  LET avg == r.stats.avgFrameTime
      max == RInt(maxFrameTime)
  IN  IF RGt(avg, max)
      THEN IF r.performanceMode = "high"
           THEN [r EXCEPT !.performanceMode = "medium"]
           ELSE IF r.performanceMode = "medium" /\ RGt(avg, RMul(max, Rat(3, 2)))
           THEN [r EXCEPT !.performanceMode = "low"]
           ELSE r
      ELSE IF RLt(avg, RMul(max, Rat(7, 10)))
      THEN IF r.performanceMode = "low"
           THEN [r EXCEPT !.performanceMode = "medium"]
           ELSE IF r.performanceMode = "medium" /\ RLt(avg, RMul(max, Rat(1, 2)))
           THEN [r EXCEPT !.performanceMode = "high"]
           ELSE r
      ELSE r

\* animate() while rendering: the frame is drawn in frameTime ms, the
\* statistics are updated and, with CONFIG.performance.adaptiveQuality, the
\* quality adapted
REAnimate(r, frameTime) == REAdaptQuality(REUpdateStats(r, frameTime))

(***************************************************************************)
(* WebXRManager.  A session object of the user agent is a number; the      *)
(* manager's startSession() is followed through its three awaits.          *)
(***************************************************************************)
\* constructor(renderer, scene, camera)
WebXRManagerNew ==
  [session |-> Null, referenceSpace |-> Null, isSupported |-> FALSE, isActive |-> FALSE]

\* handleSessionEnd()
XRHandleSessionEnd(x) ==
  [x EXCEPT !.session = Null, !.referenceSpace = Null, !.isActive = FALSE]

\* a session of the user agent
XRSession(id) == [id |-> id]

(***************************************************************************)
(* The service worker.  A path is the sequence of its parts, each "/" a    *)
(* part of its own; String.includes is containment of part sequences.      *)
(***************************************************************************)
CACHE_NAME == "ar-fittry-head-v1.0.0"

RUNTIME_CACHE == "ar-fittry-runtime"

STATIC_ASSETS ==
  {<<"/">>, <<"/", "index.html">>, <<"/", "manifest.json">>,
   <<"/", "css", "/", "style.css">>, <<"/", "js", "/", "main.js">>,
   <<"/", "js", "/", "config.js">>,
   <<"/", "js", "/", "modules", "/", "FaceTracker.js">>,
   <<"/", "js", "/", "modules", "/", "KalmanFilter.js">>,
   <<"/", "js", "/", "modules", "/", "ModelManager.js">>,
   <<"/", "js", "/", "modules", "/", "RenderEngine.js">>,
   <<"/", "js", "/", "modules", "/", "WebXRManager.js">>,
   <<"/", "assets", "/", "icons", "/", "icon-192.png">>,
   <<"/", "assets", "/", "icons", "/", "icon-512.png">>}

\* pathname.includes(part)
Includes(pathname, part) ==
  \E i \in 1..(Len(pathname) - Len(part) + 1) :
    SubSeq(pathname, i, i + Len(part) - 1) = part

\* the caches of the origin before the worker is installed
CachesNew == [name \in {} |-> EmptyMap]

\* caches.match(request): the cached response (its status), or null
CachesMatch(caches, request) ==
  IF \E name \in DOMAIN caches : request.pathname \in DOMAIN caches[name]
  THEN LET name == CHOOSE n \in DOMAIN caches : request.pathname \in DOMAIN caches[n]
       IN  [status |-> caches[name][request.pathname]]
  ELSE Null

\* caches.open(name).then(cache => cache.put(request, response.clone()))
CachesPut(caches, name, request, response) ==
  LET cache == IF name \in DOMAIN caches THEN caches[name] ELSE EmptyMap
  IN  [n \in DOMAIN caches \cup {name} |->
         IF n = name THEN MapSet(cache, request.pathname, response.status) ELSE caches[n]]

\* the strategy the fetch handler picks for a request
SWStrategy(request) ==
  IF ~request.http THEN "ignored"
  ELSE IF \E asset \in STATIC_ASSETS : Includes(request.pathname, asset) THEN "static"
  ELSE IF Includes(request.pathname, <<"/", "models", "/">>) THEN "model"
  ELSE IF request.cdn THEN "cdn"
  ELSE "default"

\* the fetch handler: the caches after it and the response the page gets
\* (null: no response), for a network that answers `network` (a response,
\* or null when the fetch fails)
SWFetch(caches, request, network) ==
  LET strategy == SWStrategy(request)
      cached == CachesMatch(caches, request)
  IN  IF strategy = "ignored" THEN [caches |-> caches, response |-> network, from |-> "browser"]
      ELSE IF strategy = "static"
      THEN IF cached # Null THEN [caches |-> caches, response |-> cached, from |-> "cache"]
           ELSE IF network = Null THEN [caches |-> caches, response |-> Null, from |-> "error"]
           ELSE [caches |-> CachesPut(caches, CACHE_NAME, request, network),
                 response |-> network, from |-> "network"]
      ELSE IF strategy = "model"
      THEN IF cached # Null THEN [caches |-> caches, response |-> cached, from |-> "cache"]
           ELSE IF network = Null THEN [caches |-> caches, response |-> Null, from |-> "error"]
           ELSE IF network.status = 200
           THEN [caches |-> CachesPut(caches, RUNTIME_CACHE, request, network),
                 response |-> network, from |-> "network"]
           ELSE [caches |-> caches, response |-> network, from |-> "network"]
      ELSE IF strategy = "cdn"
      THEN IF network # Null
           THEN [caches |-> CachesPut(caches, RUNTIME_CACHE, request, network),
                 response |-> network, from |-> "network"]
           ELSE [caches |-> caches, response |-> cached,
                 from |-> IF cached # Null THEN "cache" ELSE "error"]
      ELSE IF network # Null THEN [caches |-> caches, response |-> network, from |-> "network"]
           ELSE [caches |-> caches, response |-> cached,
                 from |-> IF cached # Null THEN "cache" ELSE "error"]

\* the message handler's CLEAR_CACHE: every cache is deleted
SWClearCache(caches) == CachesNew

VARIABLES
  kf,        \* the scalar filter under test
  kfPre,     \* the filter as it was before the last call
  kfOp,      \* the last call: "new", "update", "reset" or "setParameters"
  kfPrevOp,  \* the call before it
  kfM,       \* the measurement of the last update
  kfRet,     \* the value the last update returned
  kfCalls,   \* number of calls made so far
  kfUpdates, \* number of update calls made so far
  qkf,       \* the quaternion filter under test
  qOut,      \* the quaternion its last filter() call returned
  qOp,       \* its last call: "new", "filter", "reset" or "setParameters"
  qCalls,    \* number of calls made on it so far
  re,        \* the RenderEngine
  reObs,     \* what its last call was and did, and the state it was made in
  ft,        \* the FaceTracker
  confOut,   \* the last calculateAdvancedConfidence call: its arguments and result
  app,       \* the ARFitTryApp: its state, its tracking UI and its tracking loops
  appObs,    \* what the last step of the application did, and the frames counted so far
  trObs,     \* what the last processFrame call of the tracker did, and its counters
  pool,      \* the WorkerPool
  worker,    \* the head-tracking worker
  toWorker,  \* the messages posted to the worker and not yet handled
  toPool,    \* the messages the worker posted and the pool has not yet handled
  rm,        \* the RenderManager
  wkObs,     \* what the last step of the worker pipeline did
  mm,        \* the ModelManager: its cache, its loads in flight and its statistics
  mmObs,     \* the loadModel calls made, the objects handed out and the clones made
  sf,        \* the SmartFittingMode
  sfObs,     \* its last call and what it returned, and the calls counted since enable()
  rq,        \* the RenderEngine's rendering flag, frame statistics and performance mode
  rqObs,     \* the last animate() call: the mode before it and the frames drawn
  xr,        \* the WebXRManager
  xrRun,     \* where its startSession() call is, and the user agent's sessions
  xrObs,     \* what the last step on the WebXRManager was
  sw,        \* the caches of the service worker's origin
  swObs      \* the last event the service worker handled and what it answered

kfVars == <<kf, kfPre, kfOp, kfPrevOp, kfM, kfRet, kfCalls, kfUpdates>>

qVars == <<qkf, qOut, qOp, qCalls>>

reVars == <<re, reObs>>

ftVars == <<ft, confOut>>

appVars == <<app, appObs>>

trVars == <<trObs>>

wkVars == <<pool, worker, toWorker, toPool, rm, wkObs>>

mmVars == <<mm, mmObs>>

sfVars == <<sf, sfObs>>

rqVars == <<rq, rqObs>>

xrVars == <<xr, xrRun, xrObs>>

swVars == <<sw, swObs>>

auxVars == <<mmVars, sfVars, rqVars, xrVars, swVars>>

coreVars == <<kfVars, qVars, reVars, ftVars, appVars, trVars, wkVars>>

vars == <<kfVars, qVars, reVars, ftVars, appVars, trVars, wkVars, auxVars>>

(***************************************************************************)
(* SpecKF: one OptimizedKalmanFilter driven by any sequence of update,     *)
(* reset and setParameters calls with Q >= 0 and R > 0.                    *)
(***************************************************************************)
MaxKFCalls == 5

KFProcessNoises == {Zero, One, Rat(1, 2)}

KFMeasurementNoises == {One, Rat(1, 2)}

KFMeasurements == {Zero, One, RInt(-2)}

\* the quaternion filter while another specification runs
QIdle ==
  /\ qkf = QKFNew(One, One)
  /\ qOut = QNormalize([w |-> One, x |-> Zero, y |-> Zero, z |-> Zero])
  /\ qOp = "new"
  /\ qCalls = 0

\* nothing observed of the RenderEngine yet
RENoObs ==
  [op |-> "new", ran |-> FALSE, face |-> Null, cacheBefore |-> Null, finalScale |-> Null,
   countBefore |-> 0, isStabilized |-> FALSE]

\* the RenderEngine while another specification runs
REIdle ==
  /\ re = RENew
  /\ reObs = RENoObs

\* no confidence call observed yet
NoConfOut ==
  [op |-> "new", calls |-> 0, unclamped |-> Zero, confidence |-> Zero]

\* the FaceTracker while another specification runs
FTIdle ==
  /\ ft = FTNew
  /\ confOut = NoConfOut

\* the application before a product is selected; scheduled counts the queued
\* requestAnimationFrame(trackingLoop) callbacks, awaiting the trackingLoop calls
\* suspended in processFrame at await detector.estimateFaces
AppNew ==
  [tracking |-> FALSE, selectedProduct |-> Null, confidenceText |-> [text |-> ""],
   trackingActive |-> FALSE, scheduled |-> 0, awaiting |-> 0]

\* nothing observed of the application yet
NoAppObs ==
  [op |-> "new", wasTracking |-> FALSE, filtersUpdated |-> FALSE,
   frameCountAdvanced |-> FALSE, fired |-> FALSE, firstAfterRestart |-> FALSE,
   passthrough |-> FALSE, stopped |-> FALSE, framesSinceStart |-> 0, updates |-> 0,
   gap |-> 0]

\* the application while another specification runs
AppIdle ==
  /\ app = AppNew
  /\ appObs = NoAppObs

\* nothing observed of the tracker's frames yet
NoTrObs ==
  [op |-> "new", face |-> Null, emitted |-> FALSE, filtersChanged |-> FALSE,
   counterChanged |-> FALSE, historyChanged |-> FALSE, passthrough |-> FALSE,
   yaw |-> Zero, afterLoss |-> FALSE, gap |-> 0, gaps |-> 0, updates |-> 0, frames |-> 0, fed |-> Null]

\* the frame observer while another specification runs
TrIdle == trObs = NoTrObs

\* nothing observed of the worker pipeline yet
NoWkObs ==
  [op |-> "new", applied |-> FALSE, confidence |-> Zero, confidenceBlind |-> TRUE,
   captures |-> 0]

\* the worker pipeline while another specification runs
WkIdle ==
  /\ pool = PoolNew
  /\ worker = WorkerNew
  /\ toWorker = <<>>
  /\ toPool = <<>>
  /\ rm = RMNew
  /\ wkObs = NoWkObs

NoMMObs == [op |-> "new", calls |-> 0, clones |-> 0, handed |-> <<>>]

\* the ModelManager while another specification runs
MMIdle ==
  /\ mm = ModelManagerNew
  /\ mmObs = NoMMObs

NoSFObs ==
  [op |-> "new", ret |-> "", enables |-> 0, resets |-> 0, processed |-> 0, good |-> 0]

\* the SmartFittingMode while another specification runs
SFIdle ==
  /\ sf = SmartFittingModeNew
  /\ sfObs = NoSFObs

NoRQObs == [op |-> "new", modeBefore |-> "high", frames |-> 0]

\* the render statistics while another specification runs
RQIdle ==
  /\ rq = RenderStatsNew
  /\ rqObs = NoRQObs

XRNotStarted == [pc |-> "idle", created |-> 0, live |-> {}, listening |-> {}]

\* the WebXRManager while another specification runs
XRIdle ==
  /\ xr = WebXRManagerNew
  /\ xrRun = XRNotStarted
  /\ xrObs = [op |-> "new"]

NoSWObs ==
  [op |-> "new", request |-> Null, strategy |-> "", from |-> "", response |-> Null,
   stored |-> {}, events |-> 0]

\* the service worker while another specification runs
SWIdle ==
  /\ sw = CachesNew
  /\ swObs = NoSWObs

\* the objects of the later specifications while another specification runs
AuxIdle == MMIdle /\ SFIdle /\ RQIdle /\ XRIdle /\ SWIdle

\* the scalar filter while another specification runs
KFIdle ==
  /\ kf = KFNew(One, One)
  /\ kfPre = kf
  /\ kfOp = "new"
  /\ kfPrevOp = "new"
  /\ kfM = Zero
  /\ kfRet = Zero
  /\ kfCalls = 0
  /\ kfUpdates = 0

\* everything but the objects of the later specifications is idle
CoreIdle == KFIdle /\ QIdle /\ REIdle /\ FTIdle /\ AppIdle /\ TrIdle /\ WkIdle

KFInit ==
  /\ QIdle
  /\ REIdle
  /\ FTIdle
  /\ AppIdle
  /\ TrIdle
  /\ WkIdle
  /\ AuxIdle
  /\ \E Q \in KFProcessNoises, R \in KFMeasurementNoises : kf = KFNew(Q, R)
  /\ kfPre = kf
  /\ kfOp = "new"
  /\ kfPrevOp = "new"
  /\ kfM = Zero
  /\ kfRet = Zero
  /\ kfCalls = 0
  /\ kfUpdates = 0

KFDoUpdate ==
  /\ kfCalls < MaxKFCalls
  /\ \E m \in KFMeasurements :
       /\ kf' = KFUpdate(kf, m)
       /\ kfM' = m
  /\ kfRet' = kf'.x
  /\ kfPre' = kf
  /\ kfPrevOp' = kfOp
  /\ kfOp' = "update"
  /\ kfCalls' = kfCalls + 1
  /\ kfUpdates' = kfUpdates + 1

KFDoReset ==
  /\ kfCalls < MaxKFCalls
  /\ kf' = KFReset(kf)
  /\ kfPre' = kf
  /\ kfPrevOp' = kfOp
  /\ kfOp' = "reset"
  /\ kfCalls' = kfCalls + 1
  /\ UNCHANGED <<kfM, kfRet, kfUpdates>>

KFDoSetParameters ==
  /\ kfCalls < MaxKFCalls
  /\ \E Q \in KFProcessNoises, R \in KFMeasurementNoises :
       /\ <<Q, R>> # <<kf.Q, kf.R>>
       /\ kf' = KFSetParameters(kf, Q, R)
  /\ kfPre' = kf
  /\ kfPrevOp' = kfOp
  /\ kfOp' = "setParameters"
  /\ kfCalls' = kfCalls + 1
  /\ UNCHANGED <<kfM, kfRet, kfUpdates>>

KFNext == (KFDoUpdate \/ KFDoReset \/ KFDoSetParameters) /\ UNCHANGED <<qVars, reVars, ftVars, appVars, trVars, wkVars, auxVars>>

SpecKF == KFInit /\ [][KFNext]_vars

\* C3: with Q >= 0 and R > 0 the error covariance P of the scalar filter is
\* >= 0 in every state reached by update(), reset() and setParameters() calls.
C3_CovarianceNonNegative == RGe(kf.P, Zero)

\* C3 witness: a filtered (non-first) update has run and moved P below its
\* initial value 1.
C3_Witness ==
  /\ kfOp = "update"
  /\ kfPre.isInitialized
  /\ kfUpdates >= 3
  /\ RLt(kf.P, One)

\* C4: the update(m) that follows a reset() returns m unfiltered and leaves the
\* filter equal to a freshly constructed filter (same Q, R) after its first
\* update(m), whatever was measured before the reset.
C4_ResetThenUpdateIsFirstCall ==
  (kfOp = "update" /\ kfPrevOp = "reset")
    => /\ kfRet = kfM
       /\ kf = KFUpdate(KFNew(kf.Q, kf.R), kfM)

\* C4 witness: a filtered update, then reset(), then update(m) with m different
\* from what the filter held.
C4_Witness ==
  /\ kfOp = "update"
  /\ kfPrevOp = "reset"
  /\ kfUpdates >= 3
  /\ kfM # Zero

\* C5: the first update(m) of an uninitialized filter sets x = m, marks it
\* initialized and returns m with P = 1 and K = 0 untouched; every later update
\* runs P += Q, K = P/(P+R), x += K*(m - x), P = (1-K)*P in that order and
\* returns the new x.
C5_UpdateSteps ==
  kfOp = "update" =>
    IF ~kfPre.isInitialized
    THEN /\ kf.x = kfM
         /\ kf.isInitialized
         /\ kfRet = kfM
         /\ kf.P = One
         /\ kf.K = Zero
    ELSE LET Pp == RAdd(kfPre.P, kfPre.Q)
             Kn == RDiv(Pp, RAdd(Pp, kfPre.R))
             xn == RAdd(kfPre.x, RMul(Kn, RSub(kfM, kfPre.x)))
         IN  /\ kf.K = Kn
             /\ kf.x = xn
             /\ kf.P = RMul(RSub(One, Kn), Pp)
             /\ kf.isInitialized
             /\ kfRet = xn

\* C5 witness: a first update followed by a filtered update that moved the
\* estimate strictly between the old estimate and the measurement.
C5_Witness ==
  /\ kfOp = "update"
  /\ kfPre.isInitialized
  /\ kfPrevOp = "update"
  /\ kf.x # kfM
  /\ kf.x # kfPre.x

(***************************************************************************)
(* SpecQuat: one QuaternionKalmanFilter driven by any sequence of filter,  *)
(* reset and setParameters calls.                                          *)
(***************************************************************************)
MaxQuatCalls == 4

Quat(w, x, y, z) == [w |-> w, x |-> x, y |-> y, z |-> z]

\* unit quaternions, the antipode of one of them, and the zero quadruple
QuatInputs ==
  {Quat(One, Zero, Zero, Zero), Quat(RInt(-1), Zero, Zero, Zero),
   Quat(Zero, One, Zero, Zero), Quat(Zero, Zero, Rat(3, 5), Rat(4, 5)),
   Quat(Zero, Zero, Zero, Zero)}

QuatNoises == {<<Zero, One>>, <<One, One>>, <<One, Rat(1, 2)>>}

QInit ==
  /\ KFIdle
  /\ REIdle
  /\ FTIdle
  /\ AppIdle
  /\ TrIdle
  /\ WkIdle
  /\ AuxIdle
  /\ \E n \in QuatNoises : qkf = QKFNew(n[1], n[2])
  /\ qOut = QNormalize(Quat(One, Zero, Zero, Zero))
  /\ qOp = "new"
  /\ qCalls = 0

QDoFilter ==
  /\ qCalls < MaxQuatCalls
  /\ \E q \in QuatInputs : qkf' = QKFFilter(qkf, q)
  /\ qOut' = QKFValue(qkf')
  /\ qOp' = "filter"
  /\ qCalls' = qCalls + 1

QDoReset ==
  /\ qCalls < MaxQuatCalls
  /\ qkf' = QKFReset(qkf)
  /\ qOp' = "reset"
  /\ qCalls' = qCalls + 1
  /\ UNCHANGED qOut

QDoSetParameters ==
  /\ qCalls < MaxQuatCalls
  /\ \E n \in QuatNoises :
       /\ n # <<qkf.wFilter.Q, qkf.wFilter.R>>
       /\ qkf' = QKFSetParameters(qkf, n[1], n[2])
  /\ qOp' = "setParameters"
  /\ qCalls' = qCalls + 1
  /\ UNCHANGED qOut

QNext == (QDoFilter \/ QDoReset \/ QDoSetParameters) /\ UNCHANGED <<kfVars, reVars, ftVars, appVars, trVars, wkVars, auxVars>>

SpecQuat == QInit /\ [][QNext]_vars

\* C7: the quaternion returned by QuaternionKalmanFilter.filter has norm 1
\* after every call, and when the four filtered components are all zero it is
\* the identity quaternion {w:1, x:0, y:0, z:0}.
C7_UnitNorm ==
  /\ QNormSq(qOut) = One
  /\ (qOp = "filter" /\ QSumSq(QKFFiltered(qkf)) = Zero)
       => (qOut.w = One /\ qOut.x = Zero /\ qOut.y = Zero /\ qOut.z = Zero /\ qOut.m2 = One)

\* C7 witness: two unit quaternions were filtered and their blend cancelled to
\* the zero quadruple, so filter() took the zero-magnitude fallback.
C7_Witness ==
  /\ qOp = "filter"
  /\ qCalls >= 2
  /\ qkf.wFilter.isInitialized
  /\ Len(qkf.wFilter.measurements) >= 2
  /\ \A i \in 1..Len(qkf.wFilter.measurements) : qkf.wFilter.measurements[i] # Zero
  /\ QSumSq(QKFFiltered(qkf)) = Zero
  /\ qOut.w = One

(***************************************************************************)
(* SpecRender: one RenderEngine driven by setModel and updateModelTransform *)
(* calls with tracking data of every kind the tracker can hand over.       *)
(***************************************************************************)
MaxScaleFrames == 31

\* the video element: 1920 x 1080 once it plays, 0 x 0 before
Video == [videoWidth |-> 1920, videoHeight |-> 1080]

NoVideo == [videoWidth |-> 0, videoHeight |-> 0]

\* the catalogue's cap, a pair of glasses, and a model Box3 cannot measure
RenderModels ==
  {PrepareModel("cap-001", "hat", Vec(Zero, Rat(15, 100), Rat(-15, 100)),
                Vec(Zero, One, Zero), TRUE),
   PrepareModel("glasses-001", "glasses", Vec(Zero, Zero, Zero), Vec(Zero, Zero, Zero), TRUE),
   PrepareModel("broken-001", "hat", Vec(Zero, Zero, Zero), Vec(Zero, Zero, Zero), FALSE)}

RenderFaces ==
  {FrontalFace, NearFace, FarFace, ReferenceFace, Factor3Face, ShortFace,
   BadTempleFace, BadNoseFace, BadCrownFace, BadEyeFace}

TrackingDataOf(face, confidence, isStabilized) ==
  [position |-> Vec(Rat(1, 2), Rat(1, 4), Zero), rotation |-> Vec(Zero, Zero, Zero),
   scale |-> Scale3(Rat(5, 16)), confidence |-> confidence,
   rawKeypoints |-> face, isStabilized |-> isStabilized]

RenderInputs ==
  {TrackingDataOf(f, Rat(9, 10), TRUE) : f \in RenderFaces}
    \cup {TrackingDataOf(FrontalFace, Rat(3, 10), FALSE), TrackingDataOf(Null, Rat(9, 10), TRUE)}

RInit ==
  /\ KFIdle
  /\ QIdle
  /\ FTIdle
  /\ AppIdle
  /\ TrIdle
  /\ WkIdle
  /\ AuxIdle
  /\ re = RENew
  /\ reObs = RENoObs

RSetModel ==
  /\ \E m \in RenderModels \cup {Null} :
       re' = RESetModel(re, m)
  /\ reObs' = [RENoObs EXCEPT !.op = "setModel"]

RUpdateModelTransform ==
  /\ re.currentModel # Null
  /\ re.autoScaleFrameCount < MaxScaleFrames
  /\ \E td \in RenderInputs, video \in {Video, NoVideo} :
       /\ re' = REUpdateModelTransform(re, td, video)
       /\ reObs' = [op |-> "update", ran |-> RERunsCalibration(re, td, video),
                    face |-> td.rawKeypoints, cacheBefore |-> re.autoScaleCache,
                    finalScale |-> REFinalScale(re'.autoScaleCache),
                    countBefore |-> re.autoScaleFrameCount,
                    isStabilized |-> td.isStabilized]

RNext == (RSetModel \/ RUpdateModelTransform) /\ UNCHANGED <<kfVars, qVars, ftVars, appVars, trVars, wkVars, auxVars>>

SpecRender == RInit /\ [][RNext]_vars

FactorOf(m) == OverallScaleFactor(m.eyeDistancePixels, m.headWidthPixels, m.headHeightPixels)

\* lo <= f <= hi
FactorWithin(f, lo, hi) == RGe(f, lo) /\ RLe(f, hi)

\* C9: when the overall head scale factor computed from the landmarks is
\* outside [0.5, 2.0], calculateRealHeadDimensions rejects the measurement and
\* the calibration cycle yields the fallback scale, which is the one applied.
C9_OutOfRangeFactorFallsBack ==
  (/\ reObs.op = "update" /\ reObs.ran
   /\ reObs.face.len >= 468
   /\ ~FactorWithin(FactorOf(HeadMeasurements(reObs.face)), Rat(1, 2), RInt(2)))
    => /\ CalculateRealHeadDimensions(reObs.face, Video.videoWidth, Video.videoHeight) = Null
       /\ re.autoScaleCache = GetFallbackScale
       /\ reObs.finalScale = GetFallbackScale.scale

\* a calibration on the face whose factor is exactly 3
C9_Witness ==
  /\ reObs.op = "update" /\ reObs.ran
  /\ reObs.face = Factor3Face
  /\ FactorOf(HeadMeasurements(Factor3Face)) = RInt(3)
  /\ re.autoScaleCache.isFallback

\* C10: a calibration cycle that runs on landmarks with a missing or NaN eye,
\* temple, crown or nose point while a scale is cached keeps the cache: the
\* scale applied after the cycle is the scale that was cached before it.
C10_BadLandmarksKeepCachedScale ==
  (/\ reObs.op = "update" /\ reObs.ran
   /\ reObs.cacheBefore # Null
   /\ HasBadRequiredIndex(reObs.face))
    => /\ re.autoScaleCache = reObs.cacheBefore
       /\ reObs.finalScale = reObs.cacheBefore.scale

ProductMultiplier(productType) == IF productType = "glasses" THEN Rat(7, 10) ELSE One

\* baseScale x (eye distance / reference) x productMultiplier x adaptiveFactor
\* within [minScale, maxScale], for a face with level eyes
CalibratedScale(face, productType) ==
  RMax(AUTO_SCALE.minScale,
       RMin(AUTO_SCALE.maxScale,
            RMul(RMul(RMul(AUTO_SCALE.baseScale,
                           RDiv(RSub(face.rightEye.x, face.leftEye.x),
                                AUTO_SCALE.eyeDistanceReference)),
                      ProductMultiplier(productType)),
                 AUTO_SCALE.adaptiveFactor)))

\* C22: a calibration on a full landmark set whose required landmarks are all
\* present and finite and that calculateRealHeadDimensions accepts, for a model that can be measured, yields on all three axes
\* baseScale x (eyeDistancePixels / eyeDistanceReference) x productMultiplier x
\* adaptiveFactor clamped to [minScale, maxScale], with multiplier 1.0 for a hat
\* and 0.7 for glasses; eyes 100 px apart on a hat yield 0.0018.
C22_CalibratedScaleFormula ==
  (/\ reObs.op = "update" /\ reObs.ran
   /\ reObs.face.len >= 468 /\ ~HasBadRequiredIndex(reObs.face)
   /\ CalculateRealHeadDimensions(reObs.face, Video.videoWidth, Video.videoHeight) # Null
   /\ re.currentModel.measurable)
    => /\ re.autoScaleCache.scale =
            Scale3(CalibratedScale(reObs.face, re.currentModel.productType))
       /\ reObs.finalScale = re.autoScaleCache.scale
       /\ (reObs.face = ReferenceFace /\ re.currentModel.productType = "hat")
            => re.autoScaleCache.scale = Scale3(Rat(18, 10000))

\* the reference face calibrated a pair of glasses: 0.0018 x 0.7
C22_Witness ==
  /\ reObs.op = "update" /\ reObs.ran
  /\ reObs.face = ReferenceFace
  /\ re.currentModel.productType = "glasses"
  /\ re.autoScaleCache.scale = Scale3(Rat(126, 100000))

(***************************************************************************)
(* SpecConf: calculateAdvancedConfidence applied to arguments of every     *)
(* kind, on a tracker whose previous landmarks, confidence history and     *)
(* warm-up counter are those earlier frames left behind.                   *)
(***************************************************************************)
MaxConfCalls == 2

MaxFrameCount == 6

\* the frontal face with the right temple 3 px further out: movement 0.15
TempleMovedFace == [FrontalFace EXCEPT !.rightTemple = Pt(1108, 540, 0)]

\* the frontal face with every unnamed landmark 1 px to the right: movement 0.95
ShiftedFace == [FrontalFace EXCEPT !.base = Pt(961, 540, 0)]

\* a sampled landmark is NaN: the movement is NaN
NaNSampleFace == [FrontalFace EXCEPT !.nan = {23}]

\* an eye landmark is missing: getAverageLandmark throws
HoleFace == [FrontalFace EXCEPT !.holes = {33}]

\* no landmarks at all
EmptyFace == [FrontalFace EXCEPT !.len = 0]

ConfFaces == {FrontalFace, TempleMovedFace, ShiftedFace, NaNSampleFace, ShortFace, EmptyFace}

ConfEyeDistances == {Rat(-1, 10), Rat(1, 16), Rat(1, 2)}

ConfInit ==
  /\ KFIdle
  /\ QIdle
  /\ REIdle
  /\ AppIdle
  /\ TrIdle
  /\ WkIdle
  /\ AuxIdle
  /\ ft = FTNew
  /\ confOut = NoConfOut

\* a frame that reaches calculateAdvancedConfidence with the drawn arguments
ConfCall ==
  /\ confOut.calls < MaxConfCalls
  /\ ft.frameCount < MaxFrameCount
  /\ \E face \in ConfFaces, eyeDistance \in ConfEyeDistances :
       /\ ~MovementThrows(face, ft.previousLandmarks)
       /\ ft' = FTFinishFrame(FTConfidenceStep([ft EXCEPT !.frameCount = @ + 1],
                                               face, eyeDistance)).ft
       /\ confOut' =
            [op |-> "confidence", calls |-> confOut.calls + 1,
             unclamped |-> UnclampedConfidence([ft EXCEPT !.frameCount = @ + 1],
                                               face, eyeDistance),
             confidence |-> ft'.confidenceHistory[Len(ft'.confidenceHistory)]]

\* a frame on which calculateFacePose throws before the confidence is computed
ConfThrowingFrame ==
  /\ ft.frameCount < MaxFrameCount
  /\ ft' = FTProcessFace(ft, HoleFace, Video.videoWidth, Video.videoHeight).ft
  /\ confOut' = [confOut EXCEPT !.op = "other"]

\* a frame without a face
ConfFaceLost ==
  /\ ft.previousLandmarks # Null
  /\ ft' = FTHandleFaceLost(ft)
  /\ confOut' = [confOut EXCEPT !.op = "other"]

ConfNext ==
  /\ \/ ConfCall
     \/ ConfThrowingFrame
     \/ ConfFaceLost
  /\ UNCHANGED <<kfVars, qVars, reVars, appVars, trVars, wkVars, auxVars>>

SpecConf == ConfInit /\ [][ConfNext]_vars

\* 0 <= c <= 1 (false for NaN)
InUnitInterval(c) == RGe(c, Zero) /\ RLe(c, One)

\* C6: the confidence calculateAdvancedConfidence returns is within [0, 1] for
\* any landmark count, eye distance, previous landmarks, confidence history and
\* warm-up frame count, and so is every value stored in the confidence history.
C6_ConfidenceInUnitInterval ==
  /\ confOut.op = "confidence" => InUnitInterval(confOut.confidence)
  /\ \A i \in 1..Len(ft.confidenceHistory) : InUnitInterval(ft.confidenceHistory[i])

\* the warm-up ramp has pushed the confidence above 1 and the clamp brought it back
C6_Witness ==
  /\ confOut.op = "confidence"
  /\ RGt(confOut.unclamped, One)
  /\ confOut.confidence = One
  /\ ft.confidenceHistory[Len(ft.confidenceHistory)] = One

(***************************************************************************)
(* SpecApp: the application.  A product is selected (setModel,             *)
(* startTracking, first requestAnimationFrame), the tracking loop runs     *)
(* processFrame, which suspends at await detector.estimateFaces and        *)
(* resumes with the detector's result, and the back button stops it.  Any  *)
(* handler may run while a processFrame call is suspended.  The video is   *)
(* playing at 1920 x 1080; the detector finds the frontal face or nothing. *)
(***************************************************************************)
MaxLoops == 2

MaxFilterUpdates == 3

MaxGapFrames == 40

\* Math.round(a) of a finite number
RoundR(a) == (2 * a[1] + a[2]) \div (2 * a[2])

\* updateTrackingUI(data): the confidence text and the indicator dot
UpdateTrackingUI(a, data) ==
  IF data = Null
  THEN [a EXCEPT !.confidenceText = [text |-> "Perdu"], !.trackingActive = FALSE]
  ELSE [a EXCEPT !.confidenceText =
                   [text |-> "%", percent |-> RoundR(RMul(data.confidence, RInt(100)))],
                 !.trackingActive = RGt(data.confidence, Rat(7, 10))]

\* the cap of the catalogue, as ModelManager.prepareModel hands it over
CapModel ==
  PrepareModel("cap-001", "hat", Vec(Zero, Rat(15, 100), Rat(-15, 100)),
               Vec(Zero, One, Zero), TRUE)

\* the three filters are as constructed: nothing estimated, P = 1
FiltersFresh(t) == t = FTResetFilters([t EXCEPT !.isTracking = t.isTracking])

\* the filters hold exactly the raw measurement of the frame, with P = 1
IsPassthrough(t, data) ==
  /\ data.position = data.rawPosition
  /\ t.positionFilter.xFilter.P = One /\ t.positionFilter.yFilter.P = One
  /\ t.positionFilter.zFilter.P = One
  /\ t.rotationFilter.wFilter.P = One /\ t.scaleFilter.xFilter.P = One

AppInit ==
  /\ KFIdle
  /\ QIdle
  /\ TrIdle
  /\ WkIdle
  /\ AuxIdle
  /\ reObs = RENoObs
  /\ confOut = NoConfOut
  /\ re = RENew
  /\ ft = FTNew
  /\ app = AppNew
  /\ appObs = NoAppObs

\* handleProductSelect(product), from setModel on
HandleProductSelect ==
  /\ app.selectedProduct = Null
  /\ app.scheduled + app.awaiting < MaxLoops
  /\ re' = RESetModel(re, CapModel)
  /\ ft' = FTStartTracking(ft)
  /\ app' = [app EXCEPT !.tracking = TRUE, !.scheduled = @ + 1,
                        !.selectedProduct = [id |-> CapModel.id]]
  /\ appObs' = [NoAppObs EXCEPT !.op = "select", !.stopped = appObs.stopped,
                                !.updates = appObs.updates]

\* handleBack()
HandleBack ==
  /\ app.selectedProduct # Null
  /\ ft' = FTStopTracking(ft)
  /\ re' = RESetModel(re, Null)
  /\ app' = [app EXCEPT !.tracking = FALSE, !.selectedProduct = Null]
  /\ appObs' = [NoAppObs EXCEPT !.op = "back", !.stopped = TRUE]

\* trackingLoop() up to the await in processFrame, or to its return
TrackingLoop ==
  /\ app.scheduled > 0
  /\ app' = IF ~app.tracking THEN [app EXCEPT !.scheduled = @ - 1]
            ELSE IF ft.isInitialized /\ ft.isTracking
                 THEN [app EXCEPT !.scheduled = @ - 1, !.awaiting = @ + 1]
                 ELSE app
  /\ appObs' = [appObs EXCEPT !.op = "loop"]
  /\ UNCHANGED <<ft, re>>

\* processFrame resumes with no face: handleFaceLost, onFaceLost, then the loop
\* requests its next animation frame
DetectorReturnsNoFace ==
  /\ app.awaiting > 0
  /\ appObs.gap < MaxGapFrames
  /\ ft' = FTHandleFaceLost(ft)
  /\ app' = [UpdateTrackingUI(app, Null) EXCEPT !.awaiting = @ - 1, !.scheduled = @ + 1]
  /\ appObs' = [appObs EXCEPT !.op = "noFace", !.wasTracking = ft.isTracking,
                              !.filtersUpdated = FALSE, !.frameCountAdvanced = FALSE,
                              !.fired = FALSE, !.firstAfterRestart = FALSE,
                              !.passthrough = FALSE,
                              !.gap = IF appObs.framesSinceStart > 0 THEN @ + 1 ELSE @]
  /\ UNCHANGED re

\* the application after processFrame resumed with a face and produced r = [ft, data]
AppAfterFrame(a, r) ==
  [(IF r.data = Null THEN a ELSE UpdateTrackingUI(a, r.data))
     EXCEPT !.awaiting = @ - 1, !.scheduled = @ + 1]

\* what that frame did, for the record
ObsAfterFrame(o, t, r) ==
  [o EXCEPT !.op = "face", !.wasTracking = t.isTracking,
            !.filtersUpdated = (r.ft.positionFilter # t.positionFilter),
            !.frameCountAdvanced = (r.ft.frameCount # t.frameCount),
            !.fired = (r.data # Null),
            !.firstAfterRestart = (o.stopped /\ t.isTracking /\ o.framesSinceStart = 0),
            !.passthrough = (r.data # Null /\ FiltersFresh(t) /\ IsPassthrough(r.ft, r.data)),
            !.framesSinceStart = IF t.isTracking /\ @ < 2 THEN @ + 1 ELSE @,
            !.updates = @ + 1, !.gap = 0]

\* processFrame resumes with a face: the pose is computed and filtered,
\* onTrackingUpdate moves the model and updates the UI, then the loop requests its
\* next animation frame
DetectorReturnsFace ==
  /\ app.awaiting > 0
  /\ appObs.updates < MaxFilterUpdates
  /\ ft' = FTProcessFace(ft, FrontalFace, Video.videoWidth, Video.videoHeight).ft
  /\ re' = REUpdateModelTransform(
             re, FTProcessFace(ft, FrontalFace, Video.videoWidth, Video.videoHeight).data,
             Video)
  /\ app' = AppAfterFrame(app, FTProcessFace(ft, FrontalFace, Video.videoWidth,
                                             Video.videoHeight))
  /\ appObs' = ObsAfterFrame(appObs, ft, FTProcessFace(ft, FrontalFace, Video.videoWidth,
                                                       Video.videoHeight))

AppNext ==
  /\ \/ HandleProductSelect
     \/ HandleBack
     \/ TrackingLoop
     \/ DetectorReturnsNoFace
     \/ DetectorReturnsFace
  /\ UNCHANGED <<kfVars, qVars, reObs, confOut, trVars, wkVars, auxVars>>

SpecApp == AppInit /\ [][AppNext]_vars

\* C1: once stopTracking() has returned, no frame updates a filter, advances the
\* warm-up frame counter or fires onTrackingUpdate until startTracking() is called
\* again, also when a processFrame call was awaiting the detector at the stop; and
\* the first frame processed after a later startTracking() starts from fresh
\* filters and is passed through unfiltered with P = 1.
C1_StopHaltsAndResets ==
  /\ (appObs.op = "face" /\ ~appObs.wasTracking) =>
       (~appObs.filtersUpdated /\ ~appObs.frameCountAdvanced /\ ~appObs.fired)
  /\ (appObs.op = "face" /\ appObs.firstAfterRestart) => appObs.passthrough

\* C2: in a gap of up to 40 frames without a face after successful tracking, from
\* frame 31 of the gap on the loss has been signalled ("Perdu") and the rendered
\* model is not visible.
C2_LostByFrame31AndHidden ==
  appObs.gap >= 31 =>
    /\ app.confidenceText = [text |-> "Perdu"]
    /\ ~(re.currentModel # Null /\ re.currentModel.visible)

\* C12: over any sequence of product selection, back and re-selection, also while
\* a frame is awaiting the detector, at most one estimateFaces call is outstanding
\* and at most one tracking loop is alive (queued as an animation frame or
\* suspended in processFrame), so results are applied one per loop iteration.
C12_OneDetectionOneLoop ==
  /\ app.awaiting <= 1
  /\ app.scheduled + app.awaiting <= 1

(***************************************************************************)
(* SpecTrack: the face tracker alone, started, fed frame after frame with  *)
(* what the detector returns for a playing 1920 x 1080 video: the frontal  *)
(* face, a landmark set cut short, a face whose eye centres coincide, or   *)
(* no face.  trObs records what each processFrame call did; gap counts the *)
(* consecutive frames without a face, afterLoss that the gap before the    *)
(* frame had reached the loss timeout, frames the frames with a face since *)
(* tracking started or was last lost, fed the face the filters hold, gaps  *)
(* the gaps so far.                                                        *)
(***************************************************************************)
MaxGaps == 1

\* CONFIG.tracking.lostTrackingTimeout, in ms
lostTrackingTimeout == 1000

\* CONFIG.camera.frameRate: frames per second
frameRate == 30

\* the first frame of a gap at which lostTrackingTimeout has passed
LostAfterFrames == (lostTrackingTimeout * frameRate) \div 1000 + 1

\* the detector stopped at landmark 299: the right eye indices are out of range
TruncatedFace == [FrontalFace EXCEPT !.len = 300]

\* both eye contours at the same place: eye distance 0
CoincidentEyesFace == [FrontalFace EXCEPT !.rightEye = FrontalFace.leftEye]

TrackFaces == {FrontalFace, TruncatedFace, CoincidentEyesFace}

\* the landmark set is long enough for every index calculateFacePose reads
LandmarksSufficient(face) ==
  /\ \A i \in LeftEyeIndices \cup RightEyeIndices \cup ForeheadIndices : i < face.len
  /\ FACE_LANDMARKS.noseTip < face.len

\* the eye centres calculateFacePose averages coincide
EyesCoincide(face) ==
  /\ LandmarksSufficient(face)
  /\ FTAverageLandmark(face, FACE_LANDMARKS.leftEye).x =
       FTAverageLandmark(face, FACE_LANDMARKS.rightEye).x
  /\ FTAverageLandmark(face, FACE_LANDMARKS.leftEye).y =
       FTAverageLandmark(face, FACE_LANDMARKS.rightEye).y

\* PreciseTracker.calculateRotation: yaw before the Math.PI offset
PTYaw(leftEye, rightEye, nose) ==
  RMul(RDiv(RSub(nose.x, RDiv(RAdd(leftEye.x, rightEye.x), RInt(2))),
            RSqrt(RAdd(Sq(RSub(rightEye.x, leftEye.x)), Sq(RSub(rightEye.y, leftEye.y))))),
       Rat(1, 2))

\* the yaw PreciseTracker.calculateTransform computes from faceData.rawKeypoints
\* in trackingLoop; Zero when it is not called or returns null
PTYawOfFrame(data) ==
  IF data = Null THEN Zero
  ELSE IF data.rawKeypoints.len < 468 THEN Zero
  ELSE PTYaw(KeypointAt(data.rawKeypoints, 33), KeypointAt(data.rawKeypoints, 362),
             KeypointAt(data.rawKeypoints, 1))

\* the three filters of the tracker
FiltersOf(t) == <<t.positionFilter, t.rotationFilter, t.scaleFilter>>

\* the three filters are as constructed or reset: nothing estimated
FiltersReset(t) == FiltersOf(t) = FiltersOf(FTResetFilters(t))

\* what the processFrame call that took t to r.ft with result r.data did
TrObsAfterFace(o, t, face, r) ==
  [op |-> "face", face |-> face, emitted |-> (r.data # Null),
   filtersChanged |-> (FiltersOf(r.ft) # FiltersOf(t)),
   counterChanged |-> (r.ft.frameCount # t.frameCount
                         \/ r.ft.stabilizationComplete # t.stabilizationComplete),
   historyChanged |-> (r.ft.confidenceHistory # t.confidenceHistory),
   passthrough |-> (r.data # Null /\ FiltersReset(t) /\ IsPassthrough(r.ft, r.data)),
   yaw |-> PTYawOfFrame(r.data),
   afterLoss |-> (o.gap >= LostAfterFrames), gap |-> 0, gaps |-> o.gaps,
   updates |-> IF FiltersOf(r.ft) # FiltersOf(t) THEN o.updates + 1 ELSE o.updates,
   frames |-> IF o.gap >= LostAfterFrames THEN 1 ELSE o.frames + 1,
   fed |-> IF FiltersOf(r.ft) # FiltersOf(t) THEN face ELSE o.fed]

TInit ==
  /\ KFIdle
  /\ QIdle
  /\ REIdle
  /\ AppIdle
  /\ WkIdle
  /\ AuxIdle
  /\ confOut = NoConfOut
  /\ ft = FTStartTracking(FTNew)
  /\ trObs = NoTrObs

\* processFrame: the detector returned a face
TFaceFrame ==
  /\ ft.frameCount < MaxFrameCount
  /\ \E face \in TrackFaces :
       /\ LandmarksSufficient(face) =>
            (trObs.updates < MaxFilterUpdates /\ trObs.fed \in {Null, face})
       /\ \E r \in {FTProcessFace(ft, face, Video.videoWidth, Video.videoHeight)} :
            /\ ft' = r.ft
            /\ trObs' = TrObsAfterFace(trObs, ft, face, r)

\* processFrame: the detector returned no face
TNoFaceFrame ==
  /\ trObs.gap < MaxGapFrames
  /\ trObs.gap = 0 => trObs.gaps < MaxGaps
  /\ ft' = FTHandleFaceLost(ft)
  /\ trObs' = [trObs EXCEPT !.op = "noFace", !.face = Null, !.emitted = FALSE,
                            !.filtersChanged = (FiltersOf(ft') # FiltersOf(ft)),
                            !.counterChanged = FALSE, !.historyChanged = FALSE,
                            !.passthrough = FALSE, !.yaw = Zero,
                            !.afterLoss = FALSE, !.gap = @ + 1,
                            !.gaps = IF trObs.gap = 0 THEN @ + 1 ELSE @]

TNext ==
  /\ \/ TFaceFrame
     \/ TNoFaceFrame
  /\ UNCHANGED <<kfVars, qVars, reVars, confOut, appVars, wkVars, auxVars>>

SpecTrack == TInit /\ [][TNext]_vars

\* C14: the tracker is Calibrating (not stabilized) until stabilizationFrames
\* frames with a face have been processed and Stable from then on; after a gap
\* that reached the loss timeout the resumed detection is Calibrating again: the
\* warm-up counter restarts at the first frame after the gap and the tracker is
\* not stabilized until stabilizationFrames further frames have been processed.
C14_WarmUpRestartsAfterLoss ==
  trObs.op = "face" =>
    /\ ft.stabilizationComplete => trObs.frames >= stabilizationFrames
    /\ (trObs.emitted /\ trObs.frames >= stabilizationFrames) => ft.stabilizationComplete
    /\ trObs.afterLoss => ft.frameCount = 1

\* C15: a frame without a face leaves the three filters as they were while the
\* gap is shorter than the loss timeout; once the gap has reached the timeout the
\* three filters are reset, and the first frame with a face after such a gap is
\* passed through unfiltered.
C15_FiltersResetOnlyOnLoss ==
  /\ (trObs.op = "noFace" /\ trObs.gap < LostAfterFrames) => ~trObs.filtersChanged
  /\ (trObs.op = "noFace" /\ trObs.gap >= LostAfterFrames) => FiltersReset(ft)
  /\ (trObs.op = "face" /\ trObs.emitted /\ trObs.afterLoss) => trObs.passthrough

\* C17: a frame whose landmark set is shorter than the indices calculateFacePose
\* reads is skipped: nothing is emitted, and the filters, the warm-up frame
\* counter and the confidence history stay as they were.
C17_ShortLandmarkSetSkipped ==
  (trObs.op = "face" /\ ~LandmarksSufficient(trObs.face)) =>
    /\ ~trObs.emitted
    /\ ~trObs.filtersChanged
    /\ ~trObs.counterChanged
    /\ ~trObs.historyChanged

\* C18: a frame whose eye centres coincide is rejected: nothing is emitted, no
\* filter and no confidence history is updated from it, and no value derived
\* from it is NaN or infinite.
C18_ZeroEyeDistanceRejected ==
  (trObs.op = "face" /\ EyesCoincide(trObs.face)) =>
    /\ ~trObs.emitted
    /\ ~trObs.filtersChanged
    /\ ~trObs.historyChanged
    /\ IsFinite(trObs.yaw)

\* the last update(kfM) followed an update with the same measurement, with Q
\* and R unchanged in between
RepeatedMeasurement ==
  /\ kfOp = "update"
  /\ kfPrevOp = "update"
  /\ kfPre.isInitialized
  /\ kfPre.measurements[Len(kfPre.measurements)] = kfM

\* C20: when update is called again with the same measurement m, the error
\* |estimate - m| does not grow, and it converges to 0: each call multiplies the
\* error by 1 - K with 0 < K < 1, where K = P/R for the new P and 1/P grows by at
\* most 1/R per call, so K_n >= 1/(R/P_0 + n) and the product of the factors
\* 1 - K_n tends to 0.
C20_RepeatedMeasurementConverges ==
  RepeatedMeasurement =>
    /\ RLe(RAbs(RSub(kf.x, kfM)), RAbs(RSub(kfPre.x, kfM)))
    /\ RSub(kf.x, kfM) = RMul(RSub(One, kf.K), RSub(kfPre.x, kfM))
    /\ RGt(kf.K, Zero) /\ RLt(kf.K, One)
    /\ RGt(kfPre.P, Zero) /\ RGt(kf.P, Zero)
    /\ kf.K = RDiv(kf.P, kf.R)
    /\ RLe(RDiv(One, kf.P), RAdd(RDiv(One, kfPre.P), RDiv(One, kf.R)))

\* a repeated measurement met an estimate that was off and brought it strictly
\* closer, for the second time in a row
C20_Witness ==
  /\ RepeatedMeasurement
  /\ kfUpdates >= 3
  /\ kfPre.x # kfM
  /\ RLt(RAbs(RSub(kf.x, kfM)), RAbs(RSub(kfPre.x, kfM)))
  /\ RGt(RAbs(RSub(kf.x, kfM)), Zero)

(***************************************************************************)
(* SpecKFAny: the scalar filter constructed and re-parameterised with      *)
(* whatever noise values a caller passes, a measurement noise of 0         *)
(* included, then updated and reset as in SpecKF.                          *)
(***************************************************************************)
\* the measurement noises a caller may pass
KFAnyMeasurementNoises == KFMeasurementNoises \cup {Zero}

KFAnyInit ==
  /\ QIdle
  /\ REIdle
  /\ FTIdle
  /\ AppIdle
  /\ TrIdle
  /\ WkIdle
  /\ AuxIdle
  /\ \E Q \in KFProcessNoises, R \in KFAnyMeasurementNoises : kf = KFNew(Q, R)
  /\ kfPre = kf
  /\ kfOp = "new"
  /\ kfPrevOp = "new"
  /\ kfM = Zero
  /\ kfRet = Zero
  /\ kfCalls = 0
  /\ kfUpdates = 0

\* setParameters(processNoise, measurementNoise) with any noise values
KFDoSetAnyParameters ==
  /\ kfCalls < MaxKFCalls
  /\ \E Q \in KFProcessNoises, R \in KFAnyMeasurementNoises :
       /\ <<Q, R>> # <<kf.Q, kf.R>>
       /\ kf' = KFSetParameters(kf, Q, R)
  /\ kfPre' = kf
  /\ kfPrevOp' = kfOp
  /\ kfOp' = "setParameters"
  /\ kfCalls' = kfCalls + 1
  /\ UNCHANGED <<kfM, kfRet, kfUpdates>>

KFAnyNext ==
  /\ \/ KFDoUpdate
     \/ KFDoReset
     \/ KFDoSetAnyParameters
  /\ UNCHANGED <<qVars, reVars, ftVars, appVars, trVars, wkVars, auxVars>>

SpecKFAny == KFAnyInit /\ [][KFAnyNext]_vars

\* C19: the measurement noise R of a filter is never 0, whatever was passed to
\* the constructor and to setParameters, so the gain K = P/(P+R) computed by
\* update and the ratio Q/R reported by getMetrics are never divisions by zero.
C19_MeasurementNoiseNeverZero ==
  /\ RGt(kf.R, Zero)
  /\ IsFinite(kf.K)
  /\ IsFinite(KFGetMetrics(kf).qrRatio)

(***************************************************************************)
(* SpecStationary: after startTracking the detector returns the same full  *)
(* landmark set frame after frame, for 60 frames of a 1920 x 1080 video.   *)
(* Each frame is followed from calculateAdvancedConfidence on, with the    *)
(* eye distance calculateFacePose computes for the face; confOut.calls is  *)
(* the number of the frame.                                                *)
(***************************************************************************)
MaxStationaryFrames == 60

\* the full landmark sets held still: eyes 120, 600 and 20 px apart
StationaryFaces == {FrontalFace, NearFace, FarFace}

\* the eyeDistance calculateFacePose passes to calculateAdvancedConfidence
EyeDistanceOfFace(face, width) ==
  EyeDistanceOf(FTAverageLandmark(face, FACE_LANDMARKS.leftEye),
                FTAverageLandmark(face, FACE_LANDMARKS.rightEye), width)

\* processFrame for a face, from frameCount++ on, without the filter() calls
FTConfidenceFrame(t, face, width) ==
  FTFinishFrame(FTConfidenceStep([t EXCEPT !.frameCount = @ + 1], face,
                                 EyeDistanceOfFace(face, width)))

StInit ==
  /\ KFIdle
  /\ QIdle
  /\ REIdle
  /\ AppIdle
  /\ TrIdle
  /\ WkIdle
  /\ AuxIdle
  /\ ft = FTStartTracking(FTNew)
  /\ confOut = NoConfOut

\* the next frame: the first one shows any of the faces, the later ones the same
StationaryFrame ==
  /\ confOut.calls < MaxStationaryFrames
  /\ \E face \in (IF ft.previousLandmarks = Null THEN StationaryFaces
                  ELSE {ft.previousLandmarks}) :
       \E r \in {FTConfidenceFrame(ft, face, Video.videoWidth)} :
         /\ ft' = r.ft
         /\ confOut' = [op |-> "stationary", calls |-> confOut.calls + 1,
                        unclamped |-> UnclampedConfidence(
                                        [ft EXCEPT !.frameCount = @ + 1], face,
                                        EyeDistanceOfFace(face, Video.videoWidth)),
                        confidence |-> r.data.confidence]

StNext ==
  /\ StationaryFrame
  /\ UNCHANGED <<kfVars, qVars, reVars, appVars, trVars, wkVars, auxVars>>

SpecStationary == StInit /\ [][StNext]_vars

\* C21: with a stationary full landmark set the confidence reported is at least
\* 0.9 on every frame from frame 10 on.  (The second half of the claim, the
\* filtered position moving by less than 1e-4 from frame 20 on, concerns the
\* filter() calls, which this specification does not follow.)
C21_StationaryConfidence ==
  (confOut.op = "stationary" /\ confOut.calls >= 10) =>
    RGe(confOut.confidence, Rat(9, 10))

(***************************************************************************)
(* SpecKFHistory: one OptimizedKalmanFilter(0, 1) driven past the capacity *)
(* of its history by update and reset calls.  With Q = 0 and R = 1 the     *)
(* estimate after n updates is the mean of the n measurements, so the      *)
(* exact arithmetic stays small over more than maxHistory updates.         *)
(***************************************************************************)
MaxHistoryCalls == 103

FreeHistoryPrefix == 2

\* the measurements the driver passes next: free while the history is short
\* or at capacity, a repetition of the last one in between
HistoryMeasurements ==
  IF Len(kf.measurements) < FreeHistoryPrefix \/ Len(kf.measurements) >= maxHistory - 1
  THEN {Zero, One} ELSE {kfM}

KHInit ==
  /\ QIdle /\ REIdle /\ FTIdle /\ AppIdle /\ TrIdle /\ WkIdle /\ AuxIdle
  /\ kf = KFNew(Zero, One)
  /\ kfPre = kf
  /\ kfOp = "new"
  /\ kfPrevOp = "new"
  /\ kfM = Zero
  /\ kfRet = Zero
  /\ kfCalls = 0
  /\ kfUpdates = 0

KHUpdate ==
  /\ kfCalls < MaxHistoryCalls
  /\ \E m \in HistoryMeasurements :
       /\ kf' = KFUpdate(kf, m)
       /\ kfM' = m
  /\ kfRet' = kf'.x
  /\ kfPre' = kf
  /\ kfPrevOp' = kfOp
  /\ kfOp' = "update"
  /\ kfCalls' = kfCalls + 1
  /\ kfUpdates' = kfUpdates + 1

\* reset(), called by the driver after one of its first updates or on a full
\* history
KHReset ==
  /\ kfCalls < MaxHistoryCalls
  /\ kf.measurements # <<>>
  /\ kfUpdates <= FreeHistoryPrefix \/ Len(kf.measurements) = maxHistory
  /\ kf' = KFReset(kf)
  /\ kfPre' = kf
  /\ kfPrevOp' = kfOp
  /\ kfOp' = "reset"
  /\ kfCalls' = kfCalls + 1
  /\ UNCHANGED <<kfM, kfRet, kfUpdates>>

KHNext == (KHUpdate \/ KHReset) /\ UNCHANGED <<qVars, reVars, ftVars, appVars, trVars, wkVars, auxVars>>

SpecKFHistory == KHInit /\ [][KHNext]_vars

\* the array after one more entry, the oldest dropped when it was full
Pushed(before, entry) ==
  IF Len(before) < maxHistory THEN Append(before, entry)
  ELSE Append(Tail(before), entry)

\* C23: every update(), the first one included, appends one (measurement,
\* estimate, innovation) entry; the three history arrays have the same length,
\* at most maxHistory; an append to a full history drops exactly the oldest
\* entry of each; reset() empties all three.
C23_HistoryBounded ==
  /\ Len(kf.measurements) = Len(kf.estimates)
  /\ Len(kf.estimates) = Len(kf.innovations)
  /\ Len(kf.measurements) <= maxHistory
  /\ kfOp = "update" =>
       /\ kf.measurements = Pushed(kfPre.measurements, kfM)
       /\ kf.estimates = Pushed(kfPre.estimates, kfRet)
       /\ kf.innovations = Pushed(kfPre.innovations,
                                  IF kfPre.isInitialized THEN RSub(kfM, kfPre.x) ELSE Zero)
       /\ ~kfPre.isInitialized => Len(kf.measurements) = 1
  /\ kfOp = "reset" =>
       /\ kf.measurements = <<>> /\ kf.estimates = <<>> /\ kf.innovations = <<>>

\* an update on a full history whose oldest measurement differs from the
\* second oldest
C23_Witness ==
  /\ kfOp = "update"
  /\ Len(kfPre.measurements) = maxHistory
  /\ kfPre.measurements[1] # kfPre.measurements[2]
  /\ Len(kf.measurements) = maxHistory

(***************************************************************************)
(* SpecUtilsKF: the scalar KalmanFilter of the utils variant, one axis of  *)
(* the Vector3KalmanFilter that useAsyncTracking applies, driven by filter *)
(* and reset calls.  The filter object is held in kf.                      *)
(***************************************************************************)
MaxUtilsCalls == 4

\* TRACKING_CONFIG[category].kalman for head, hand and foot
TRACKING_CONFIG ==
  [head |-> [R |-> Rat(1, 100), Q |-> RInt(3)],
   hand |-> [R |-> Rat(2, 100), Q |-> RInt(4)],
   foot |-> [R |-> Rat(3, 100), Q |-> RInt(5)]]

UtilsMeasurements == {Zero, One, RInt(-2), Rat(1, 2)}

\* new KalmanFilter(R, Q)
KalmanFilterNew(R, Q) == [R |-> R, Q |-> Q, x |-> Zero, P |-> One, K |-> Zero]

\* filter(measurement): the filter after the call (the call returns its x)
KalmanFilterFilter(f, measurement) ==
  LET xPrediction == f.x
      pPrediction == RAdd(f.P, f.Q)
      K1 == RDiv(pPrediction, RAdd(pPrediction, f.R))
  IN  [f EXCEPT !.K = K1,
                !.x = RAdd(xPrediction, RMul(K1, RSub(measurement, xPrediction))),
                !.P = RMul(RSub(One, K1), pPrediction)]

\* reset()
KalmanFilterReset(f) == [f EXCEPT !.x = Zero, !.P = One, !.K = Zero]

UInit ==
  /\ QIdle /\ REIdle /\ FTIdle /\ AppIdle /\ TrIdle /\ WkIdle /\ AuxIdle
  /\ \E category \in DOMAIN TRACKING_CONFIG :
       kf = KalmanFilterNew(TRACKING_CONFIG[category].R, TRACKING_CONFIG[category].Q)
  /\ kfPre = kf
  /\ kfOp = "new"
  /\ kfPrevOp = "new"
  /\ kfM = Zero
  /\ kfRet = Zero
  /\ kfCalls = 0
  /\ kfUpdates = 0

\* filter(measurement); the driver makes at most two filter calls in a row,
\* which keeps the exact arithmetic within the integers
UFilter ==
  /\ kfCalls < MaxUtilsCalls
  /\ kfOp \in {"new", "reset"} \/ kfPrevOp \in {"new", "reset"}
  /\ \E m \in UtilsMeasurements :
       /\ kf' = KalmanFilterFilter(kf, m)
       /\ kfM' = m
  /\ kfRet' = kf'.x
  /\ kfPre' = kf
  /\ kfPrevOp' = kfOp
  /\ kfOp' = "filter"
  /\ kfCalls' = kfCalls + 1
  /\ kfUpdates' = kfUpdates + 1

UReset ==
  /\ kfCalls < MaxUtilsCalls
  /\ kf' = KalmanFilterReset(kf)
  /\ kfPre' = kf
  /\ kfPrevOp' = kfOp
  /\ kfOp' = "reset"
  /\ kfCalls' = kfCalls + 1
  /\ UNCHANGED <<kfM, kfRet, kfUpdates>>

UNext == (UFilter \/ UReset) /\ UNCHANGED <<qVars, reVars, ftVars, appVars, trVars, wkVars, auxVars>>

SpecUtilsKF == UInit /\ [][UNext]_vars

\* C24: the first filter(measurement) call after construction and after
\* reset() returns the measurement itself.
C24_FirstMeasurementUnfiltered ==
  (kfOp = "filter" /\ kfPrevOp \in {"new", "reset"}) => kfRet = kfM

(***************************************************************************)
(* SpecRenderLife: the RenderEngine over its whole life: setModel,         *)
(* updateModelTransform and dispose calls in any order.                    *)
(***************************************************************************)
LifeInputs ==
  {TrackingDataOf(FrontalFace, Rat(9, 10), TRUE), TrackingDataOf(ReferenceFace, Rat(9, 10), TRUE),
   TrackingDataOf(FrontalFace, Rat(3, 10), FALSE)}

\* which object a model reference is ("" for null)
ModelIdOf(model) == IF model = Null THEN "" ELSE model.id

\* what the last call was and the model set before it
LifeObs(op, modelBefore) == [op |-> op, modelBefore |-> ModelIdOf(modelBefore)]

LInit ==
  /\ KFIdle /\ QIdle /\ FTIdle /\ AppIdle /\ TrIdle /\ WkIdle /\ AuxIdle
  /\ re = RENew
  /\ reObs = LifeObs("new", Null)

LSetModel ==
  /\ \E m \in RenderModels \cup {Null} : re' = RESetModel(re, m)
  /\ reObs' = LifeObs("setModel", re.currentModel)

LUpdateModelTransform ==
  /\ re.currentModel # Null
  /\ re.autoScaleFrameCount < MaxScaleFrames
  /\ \E td \in LifeInputs : re' = REUpdateModelTransform(re, td, Video)
  /\ reObs' = LifeObs("update", re.currentModel)

LDispose ==
  /\ re' = REDispose(re)
  /\ reObs' = LifeObs("dispose", re.currentModel)

LNext ==
  /\ LSetModel \/ LUpdateModelTransform \/ LDispose
  /\ UNCHANGED <<kfVars, qVars, ftVars, appVars, trVars, wkVars, auxVars>>

SpecRenderLife == LInit /\ [][LNext]_vars

MaxLoadCalls == 4

ModelUrls == {"/models/cap.glb", "/models/glasses.glb"}

\* n times the object o
Repeat(o, n) == [i \in 1..n |-> o]

LoaderInit ==
  /\ CoreIdle /\ SFIdle /\ RQIdle /\ XRIdle /\ SWIdle
  /\ mm = ModelManagerNew
  /\ mmObs = NoMMObs

\* a caller calls loadModel(url); on a cache hit it is handed a new clone
CallLoadModel ==
  /\ mmObs.calls < MaxLoadCalls
  /\ \E url \in ModelUrls :
       \E r \in {MMLoadModel(mm, url)} :
         /\ mm' = r.mm
         /\ mmObs' = IF r.holds = "clone"
                     THEN [op |-> "hit", calls |-> mmObs.calls + 1,
                           clones |-> mmObs.clones + 1,
                           handed |-> Append(mmObs.handed, mmObs.clones + 1)]
                     ELSE [mmObs EXCEPT !.op = r.holds, !.calls = @ + 1]

\* a load in flight completes: the scene is object clones + 1, the clone the
\* promise resolves with is object clones + 2, and every caller holding the
\* promise receives that value
LoadCompletes ==
  \E url \in DOMAIN mm.loadingProgress :
    /\ mm' = MMOnLoad(mm, url, mmObs.clones + 1)
    /\ mmObs' = [mmObs EXCEPT !.op = "loaded", !.clones = @ + 2,
                              !.handed = @ \o Repeat(mmObs.clones + 2, mm.loadingProgress[url])]

\* a load in flight fails: its promise rejects, nobody is handed an object
LoadFails ==
  \E url \in DOMAIN mm.loadingProgress :
    /\ mm' = MMOnError(mm, url)
    /\ mmObs' = [mmObs EXCEPT !.op = "failed"]

LoaderNext ==
  /\ CallLoadModel \/ LoadCompletes \/ LoadFails
  /\ UNCHANGED <<coreVars, sfVars, rqVars, xrVars, swVars>>

SpecLoader == LoaderInit /\ [][LoaderNext]_vars

\* C26: no object is handed to two callers of loadModel: the objects the
\* successful calls resolved to are pairwise distinct, and none of them is a
\* scene kept in the cache.
C26_DistinctClones ==
  /\ \A i, j \in DOMAIN mmObs.handed : i # j => mmObs.handed[i] # mmObs.handed[j]
  /\ \A i \in DOMAIN mmObs.handed, u \in DOMAIN mm.cache : mmObs.handed[i] # mm.cache[u]

(***************************************************************************)
(* SpecSmart: one SmartFittingMode driven by enable, disable, reset and    *)
(* process calls.  The first CalibrationLead frames of a calibration are   *)
(* frames that are not collected (the face is still settling); after them  *)
(* every frame is free.                                                    *)
(***************************************************************************)
MaxEnables == 2

MaxResets == 1

MaxAdjustments == 1

CalibrationLead == 48

HeadMetrics == [width |-> RInt(140), height |-> RInt(180)]

GoodData == [confidence |-> Rat(9, 10), isStabilized |-> TRUE, rawKeypoints |-> HeadMetrics]

PoorData == [confidence |-> Rat(1, 2), isStabilized |-> TRUE, rawKeypoints |-> HeadMetrics]

NoKeypointsData == [confidence |-> Rat(9, 10), isStabilized |-> TRUE, rawKeypoints |-> Null]

\* the tracking data the next process() call can be given
SmartInputs ==
  IF sf.isCalibrating /\ sf.calibrationFrames < CalibrationLead
  THEN {PoorData, Null}
  ELSE {GoodData, PoorData, NoKeypointsData, Null}

SmInit ==
  /\ CoreIdle /\ MMIdle /\ RQIdle /\ XRIdle /\ SWIdle
  /\ sf = SmartFittingModeNew
  /\ sfObs = NoSFObs

\* enable(), called on a new mode and again after a calibration has ended
SmEnable ==
  /\ sfObs.enables < MaxEnables
  /\ ~sf.isCalibrating
  /\ sf' = SFEnable(sf)
  /\ sfObs' = [sfObs EXCEPT !.op = "enable", !.ret = "", !.enables = @ + 1,
                            !.processed = 0, !.good = 0]

SmDisable ==
  /\ sf.enabled /\ ~sf.isCalibrating
  /\ sf' = SFDisable(sf)
  /\ sfObs' = [sfObs EXCEPT !.op = "disable", !.ret = ""]

\* reset(), called once the settling frames of a calibration have passed
SmReset ==
  /\ sfObs.resets < MaxResets
  /\ sf.calibrationFrames >= CalibrationLead
  /\ sf' = SFReset(sf)
  /\ sfObs' = [sfObs EXCEPT !.op = "reset", !.ret = "", !.resets = @ + 1]

\* process(trackingData, currentModel) with the cap as the current model
SmProcess ==
  /\ sf.isCalibrating \/ Len(sf.adjustmentHistory) < MaxAdjustments
  /\ \E trackingData \in SmartInputs :
       \E r \in {SFProcess(sf, trackingData, CapModel)} :
         /\ sf' = r.sf
         /\ sfObs' = [sfObs EXCEPT
                        !.op = "process", !.ret = r.ret,
                        !.processed = IF r.ret = "null" THEN @ ELSE @ + 1,
                        !.good = IF r.ret = "calibrating" /\ SFCollects(trackingData)
                                 THEN @ + 1 ELSE @]

SmNext ==
  /\ SmEnable \/ SmDisable \/ SmReset \/ SmProcess
  /\ UNCHANGED <<coreVars, mmVars, rqVars, xrVars, swVars>>

SpecSmart == SmInit /\ [][SmNext]_vars

\* C27: after enable(), exactly the first 60 process() calls that are given
\* tracking data and a model return 'calibrating' and calibrationFrames never
\* exceeds 60; the call after them ends the calibration, which stays ended
\* until the next enable(); optimalSettings.scale is set and
\* getStats().isCalibrated is true only if at least 10 of those 60 frames had
\* confidence > 0.7 and keypoints.
C27_CalibrationWindow ==
  /\ sf.calibrationFrames <= calibrationLength
  /\ (sfObs.op = "process" /\ sfObs.ret # "null") =>
       (sfObs.ret = "calibrating" <=> sfObs.processed <= calibrationLength)
  /\ (sf.enabled /\ sfObs.processed > calibrationLength) => ~sf.isCalibrating
  /\ SFIsCalibrated(sf) => sfObs.good >= minCalibrationData

(***************************************************************************)
(* SpecQuality: the render loop: each animate() draws a frame in 0, 34 or  *)
(* 100 ms, updates the statistics and adapts the quality.                  *)
(***************************************************************************)
MaxRenderFrames == 9

FrameTimes == {Zero, RInt(34), RInt(100)}

QualityInit ==
  /\ CoreIdle /\ MMIdle /\ SFIdle /\ XRIdle /\ SWIdle
  /\ rq = RenderStatsNew
  /\ rqObs = NoRQObs

\* startRendering(): the flag is set and animate() draws the first frame
QStartRendering ==
  /\ ~rq.isRendering
  /\ rqObs.frames < MaxRenderFrames
  /\ \E frameTime \in FrameTimes :
       rq' = REAnimate([rq EXCEPT !.isRendering = TRUE], frameTime)
  /\ rqObs' = [op |-> "animate", modeBefore |-> rq.performanceMode,
               frames |-> rqObs.frames + 1]

\* stopRendering()
QStopRendering ==
  /\ rq.isRendering
  /\ rq' = [rq EXCEPT !.isRendering = FALSE]
  /\ rqObs' = [rqObs EXCEPT !.op = "stop", !.modeBefore = rq.performanceMode]

\* animate()
QAnimate ==
  /\ rq.isRendering
  /\ rqObs.frames < MaxRenderFrames
  /\ \E frameTime \in FrameTimes : rq' = REAnimate(rq, frameTime)
  /\ rqObs' = [op |-> "animate", modeBefore |-> rq.performanceMode,
               frames |-> rqObs.frames + 1]

QualityNext ==
  /\ QStartRendering \/ QStopRendering \/ QAnimate
  /\ UNCHANGED <<coreVars, mmVars, sfVars, xrVars, swVars>>

SpecQuality == QualityInit /\ [][QualityNext]_vars

\* the quality level of a performance mode
QualityLevel(mode) == IF mode = "high" THEN 2 ELSE IF mode = "medium" THEN 1 ELSE 0

\* C28: performanceMode is always high, medium or low; one adaptQuality()
\* call moves it by at most one level, lowers it only when avgFrameTime >
\* maxFrameTime and raises it only when avgFrameTime < 0.7 x maxFrameTime.
C28_QualityStepsOneLevel ==
  LET before == QualityLevel(rqObs.modeBefore)
      after == QualityLevel(rq.performanceMode)
  IN  /\ rq.performanceMode \in {"high", "medium", "low"}
      /\ after - before \in {-1, 0, 1}
      /\ after < before => RGt(rq.stats.avgFrameTime, RInt(maxFrameTime))
      /\ after > before =>
           RLt(rq.stats.avgFrameTime, RMul(Rat(7, 10), RInt(maxFrameTime)))

\* the mode is back at high after having been lowered
C28_Witness ==
  /\ rqObs.op = "animate"
  /\ rqObs.modeBefore = "medium" /\ rq.performanceMode = "high"
  /\ RGt(RSum(rq.stats.frameTimeHistory), RInt(maxFrameTime))

(***************************************************************************)
(* SpecXR: one WebXRManager: checkSupport, startSession followed through   *)
(* its awaits (each of which the user agent can reject), endSession, and   *)
(* sessions ended by the user agent.  One startSession() runs at a time.   *)
(***************************************************************************)
MaxSessions == 3

XRInit ==
  /\ CoreIdle /\ MMIdle /\ SFIdle /\ RQIdle /\ SWIdle
  /\ xr = WebXRManagerNew
  /\ xrRun = XRNotStarted
  /\ xrObs = [op |-> "new"]

\* checkSupport() settles: isSessionSupported answered, or threw
XRCheckSupport ==
  /\ \E supported \in BOOLEAN : xr' = [xr EXCEPT !.isSupported = supported]
  /\ xrObs' = [op |-> "checkSupport"]
  /\ UNCHANGED xrRun

\* startSession() up to its first await, or to its throw or early return
XRStartSession ==
  /\ xrRun.pc = "idle"
  /\ IF ~xr.isSupported
     THEN /\ xrObs' = [op |-> "startThrew"]
          /\ UNCHANGED xrRun
     ELSE IF xr.session # Null
     THEN /\ xrObs' = [op |-> "startReturned"]
          /\ UNCHANGED xrRun
     ELSE /\ xrRun.created < MaxSessions
          /\ xrRun' = [xrRun EXCEPT !.pc = "requestSession"]
          /\ xrObs' = [op |-> "startCalled"]
  /\ UNCHANGED xr

\* navigator.xr.requestSession resolves: this.session is assigned
XRRequestSessionResolves ==
  /\ xrRun.pc = "requestSession"
  /\ xr' = [xr EXCEPT !.session = XRSession(xrRun.created + 1)]
  /\ xrRun' = [xrRun EXCEPT !.pc = "setSession", !.created = @ + 1,
                            !.live = @ \cup {xrRun.created + 1}]
  /\ xrObs' = [op |-> "sessionGranted"]

\* renderer.xr.setSession resolves
XRSetSessionResolves ==
  /\ xrRun.pc = "setSession"
  /\ xrRun' = [xrRun EXCEPT !.pc = "requestReferenceSpace"]
  /\ xrObs' = [op |-> "sessionSet"]
  /\ UNCHANGED xr

\* session.requestReferenceSpace resolves: the rest of startSession runs
XRReferenceSpaceResolves ==
  /\ xrRun.pc = "requestReferenceSpace"
  /\ xr.session # Null
  /\ xr' = [xr EXCEPT !.referenceSpace = [space |-> "local-floor"], !.isActive = TRUE]
  /\ xrRun' = [xrRun EXCEPT !.pc = "idle", !.listening = @ \cup {xr.session.id}]
  /\ xrObs' = [op |-> "started"]

\* one of the three awaited calls rejects: the catch block rethrows
XRAwaitRejects ==
  /\ xrRun.pc \in {"requestSession", "setSession", "requestReferenceSpace"}
  /\ xrRun' = [xrRun EXCEPT !.pc = "idle"]
  /\ xrObs' = [op |-> "startFailed"]
  /\ UNCHANGED xr

\* the user agent ends a session: its 'end' event runs handleSessionEnd when
\* startSession got as far as adding the listener
XRSessionEnds ==
  \E id \in xrRun.live :
    /\ xrRun' = [xrRun EXCEPT !.live = @ \ {id}]
    /\ xr' = IF id \in xrRun.listening THEN XRHandleSessionEnd(xr) ELSE xr
    /\ xrObs' = [op |-> "ended"]

\* endSession(): session.end() on the recorded session; the 'end' event of
\* a live session follows; an ended session rejects and the error is logged
XREndSession ==
  /\ xrRun.pc = "idle"
  /\ xr.session # Null
  /\ xrRun' = [xrRun EXCEPT !.live = @ \ {xr.session.id}]
  /\ xr' = IF xr.session.id \in xrRun.live /\ xr.session.id \in xrRun.listening
           THEN XRHandleSessionEnd(xr) ELSE xr
  /\ xrObs' = [op |-> "endSession"]

XRNext ==
  /\ \/ XRCheckSupport \/ XRStartSession \/ XRRequestSessionResolves
     \/ XRSetSessionResolves \/ XRReferenceSpaceResolves \/ XRAwaitRejects
     \/ XRSessionEnds \/ XREndSession
  /\ UNCHANGED <<coreVars, mmVars, sfVars, rqVars, swVars>>

SpecXR == XRInit /\ [][XRNext]_vars

\* C29: whenever no startSession() is in progress, session is non-null
\* exactly when isActive is true, and a startSession() that failed has left
\* no session recorded.
C29_SessionIffActive ==
  xrRun.pc = "idle" =>
    /\ (xr.session # Null) <=> xr.isActive
    /\ xrObs.op = "startFailed" => xr.session = Null

(***************************************************************************)
(* SpecSW: the service worker's install, fetch and message handlers, for   *)
(* requests of the application's own pages, of models, of a CDN and of a   *)
(* browser extension, and a network that answers 200, 404 or not at all.   *)
(***************************************************************************)
MaxSWEvents == 4

Request(pathname, http, cdn) == [pathname |-> pathname, http |-> http, cdn |-> cdn]

CapRequest == Request(<<"/", "models", "/", "cap.glb">>, TRUE, FALSE)

SWRequests ==
  {CapRequest,
   Request(<<"/", "models", "/", "glasses.glb">>, TRUE, FALSE),
   Request(<<"/", "index.html">>, TRUE, FALSE),
   Request(<<"/", "npm", "/", "three.js">>, TRUE, TRUE),
   Request(<<"/", "models", "/", "cap.glb">>, FALSE, FALSE)}

NetworkAnswers == {[status |-> 200], [status |-> 404], Null}

SWInit ==
  /\ CoreIdle /\ MMIdle /\ SFIdle /\ RQIdle /\ XRIdle
  /\ sw = CachesNew
  /\ swObs = NoSWObs

\* the 'install' event: cache.addAll(STATIC_ASSETS) into CACHE_NAME
SWInstall ==
  /\ swObs.op = "new"
  /\ sw' = [n \in DOMAIN sw \cup {CACHE_NAME} |-> [asset \in STATIC_ASSETS |-> 200]]
  /\ swObs' = [NoSWObs EXCEPT !.op = "install"]

\* a 'fetch' event
SWFetchEvent ==
  /\ swObs.events < MaxSWEvents
  /\ \E request \in SWRequests, network \in NetworkAnswers :
       \E r \in {SWFetch(sw, request, network)} :
         /\ sw' = r.caches
         /\ swObs' = [op |-> "fetch", request |-> request,
                      strategy |-> SWStrategy(request), from |-> r.from,
                      response |-> r.response,
                      stored |-> {n \in DOMAIN r.caches :
                                    /\ request.pathname \in DOMAIN r.caches[n]
                                    /\ ~(n \in DOMAIN sw /\ request.pathname \in DOMAIN sw[n])},
                      events |-> swObs.events + 1]

\* a 'message' event of type CLEAR_CACHE
SWClearCacheMessage ==
  /\ swObs.events < MaxSWEvents
  /\ sw # CachesNew
  /\ sw' = SWClearCache(sw)
  /\ swObs' = [NoSWObs EXCEPT !.op = "clear", !.events = swObs.events + 1]

SWNext ==
  /\ SWInstall \/ SWFetchEvent \/ SWClearCacheMessage
  /\ UNCHANGED <<coreVars, mmVars, sfVars, rqVars, xrVars>>

SpecSW == SWInit /\ [][SWNext]_vars

\* C30: an http request whose path contains /models/ and is not one of the
\* listed static files is handled by the model strategy: it is answered from
\* the cache when a response is cached and fetched otherwise, and the fetched
\* response is stored, in the runtime cache, only when its status is 200.
C30_ModelStrategy ==
  (/\ swObs.op = "fetch" /\ swObs.request.http
   /\ Includes(swObs.request.pathname, <<"/", "models", "/">>)
   /\ swObs.request.pathname \notin STATIC_ASSETS)
    => /\ swObs.strategy = "model"
       /\ swObs.stored \subseteq {RUNTIME_CACHE}
       /\ swObs.stored # {} => swObs.response.status = 200

(***************************************************************************)
(* SpecWorker: the worker pipeline.  CameraManager's capture loop submits  *)
(* frames, the head worker initializes its detector and processes them,    *)
(* the pool handles the worker's answers and the registered listener moves *)
(* the model.  The browser's event loop runs every posted message and      *)
(* every armed timer, and a pending promise either settles or never does   *)
(* (EstimateHangs), which is what the fairness conditions state.           *)
(***************************************************************************)
MaxCaptures == 3

\* the ImageBitmap CameraManager.captureFrame creates: 1280 x 720
Bitmap == [width |-> 1280, height |-> 720]

\* MODELS_CONFIG.head[0], the baseball cap
HatConfig ==
  [id |-> "hat-001", scale |-> Scale3(Rat(5, 100)), offset |-> Vec(Zero, Rat(15, 100), Zero)]

\* what estimateFaces may answer: a full face, the same face with fewer than 400
\* landmarks, a face without landmarks, or no face
WorkerFaces ==
  {MkFace(640, 360, 128, 150, 60, 360),
   [MkFace(640, 360, 128, 150, 60, 360) EXCEPT !.len = 390],
   EmptyFace, Null}

\* the confidences handleFace can report
WorkerConfidences == {Rat(9, 10), Rat(7, 10)}

\* the listener would have moved the model to the same position, rotation and
\* scale whatever confidence the result carried
ConfidenceBlind(r, data) ==
  \A c \in WorkerConfidences :
    LET a == AppOnUpdate(r, data).models.head
        b == AppOnUpdate(r, [data EXCEPT !.confidence = c]).models.head
    IN  a.position = b.position /\ a.rotation = b.rotation /\ a.scale = b.scale

WInit ==
  /\ KFIdle
  /\ QIdle
  /\ REIdle
  /\ FTIdle
  /\ AppIdle
  /\ TrIdle
  /\ AuxIdle
  /\ pool = PoolNew
  /\ worker = WorkerNew
  /\ toWorker = <<Msg("init", Null)>>
  /\ toPool = <<>>
  /\ rm = RMNew
  /\ wkObs = NoWkObs

\* handleSelectProduct: the loaded model is added to the scene
WSelectProduct ==
  /\ rm.models.head = Null
  /\ rm' = RMAddModel(rm, HatConfig)
  /\ wkObs' = [wkObs EXCEPT !.op = "select", !.applied = FALSE]
  /\ UNCHANGED <<pool, worker, toWorker, toPool>>

\* CameraManager.captureFrame: a frame is captured and handed to the pool;
\* captures counts the frames the pool submitted to the worker
WCapture ==
  /\ pool.processingFlags.head \/ wkObs.captures < MaxCaptures
  /\ pool' = PoolProcessFrame(pool, toWorker, Bitmap).pool
  /\ toWorker' = PoolProcessFrame(pool, toWorker, Bitmap).toWorker
  /\ wkObs' = [wkObs EXCEPT !.op = "capture", !.applied = FALSE,
                            !.captures = IF pool.processingFlags.head THEN @ ELSE @ + 1]
  /\ UNCHANGED <<worker, toPool, rm>>

\* the worker's onmessage runs for the oldest posted message
WorkerReceives ==
  /\ toWorker # <<>>
  /\ \E throws \in BOOLEAN : worker' = WorkerOnMessage(worker, Head(toWorker), throws)
  /\ toWorker' = Tail(toWorker)
  /\ wkObs' = [wkObs EXCEPT !.op = "onmessage", !.applied = FALSE]
  /\ UNCHANGED <<pool, toPool, rm>>

\* initializeDetector settles: the detector is created, or loading it failed
InitCompletes ==
  /\ worker.initializing
  /\ \E ok \in BOOLEAN :
       /\ worker' = WorkerInitDone(worker, ok).worker
       /\ toPool' = toPool \o WorkerInitDone(worker, ok).posted
  /\ wkObs' = [wkObs EXCEPT !.op = "init", !.applied = FALSE]
  /\ UNCHANGED <<pool, toWorker, rm>>

\* detector.estimateFaces settles: it answers with faces or rejects
EstimateCompletes ==
  /\ worker.estimating /\ ~worker.hung
  /\ \E face \in WorkerFaces, rejected \in BOOLEAN :
       /\ worker' = WorkerEstimateDone(worker, face, rejected).worker
       /\ toPool' = toPool \o WorkerEstimateDone(worker, face, rejected).posted
  /\ wkObs' = [wkObs EXCEPT !.op = "estimate", !.applied = FALSE]
  /\ UNCHANGED <<pool, toWorker, rm>>

\* detector.estimateFaces will never settle
EstimateHangs ==
  /\ worker.estimating /\ ~worker.hung
  /\ worker' = [worker EXCEPT !.hung = TRUE]
  /\ wkObs' = [wkObs EXCEPT !.op = "hang", !.applied = FALSE]
  /\ UNCHANGED <<pool, toWorker, toPool, rm>>

\* the 3 s timer of processFrame fires before estimateFaces has settled
TimeoutFires ==
  /\ worker.timeout /\ worker.estimating
  /\ worker' = WorkerTimeout(worker)
  /\ wkObs' = [wkObs EXCEPT !.op = "timeout", !.applied = FALSE]
  /\ UNCHANGED <<pool, toWorker, toPool, rm>>

\* the pool's onmessage runs for the oldest answer: handleWorkerMessage, then the
\* listeners for 'landmarks' and 'tracking_lost'
PoolReceives ==
  /\ toPool # <<>>
  /\ pool' = HandleWorkerMessage(pool, Head(toPool))
  /\ toPool' = Tail(toPool)
  /\ rm' = IF Head(toPool).type = "landmarks" THEN AppOnUpdate(rm, Head(toPool).data)
           ELSE rm
  /\ wkObs' = IF Head(toPool).type = "landmarks" /\ rm.models.head # Null
              THEN [wkObs EXCEPT !.op = "landmarks", !.applied = TRUE,
                                 !.confidence = Head(toPool).data.confidence,
                                 !.confidenceBlind =
                                   ConfidenceBlind(rm, Head(toPool).data)]
              ELSE [wkObs EXCEPT !.op = Head(toPool).type, !.applied = FALSE]
  /\ UNCHANGED <<worker, toWorker>>

\* The main thread's event loop delivers every posted message: the step of
\* PoolReceives seen on the message queue alone.
PoolDelivers ==
  /\ toPool # <<>>
  /\ toPool' = Tail(toPool)

WNext ==
  /\ \/ WSelectProduct
     \/ WCapture
     \/ WorkerReceives
     \/ InitCompletes
     \/ EstimateCompletes
     \/ EstimateHangs
     \/ TimeoutFires
     \/ PoolReceives
  /\ UNCHANGED <<kfVars, qVars, reVars, ftVars, appVars, trVars, auxVars>>

SpecWorker ==
  /\ WInit
  /\ [][WNext]_vars
  /\ WF_wkVars(WorkerReceives)
  /\ WF_wkVars(InitCompletes)
  /\ WF_wkVars(EstimateCompletes \/ EstimateHangs)
  /\ WF_wkVars(TimeoutFires)
  /\ WF_toPool(PoolDelivers)

\* C11: confidence gates only visibility: the position, rotation and scale the
\* listener applies to the rendered model are the same whatever confidence the
\* result carries, and the model is visible exactly when the confidence exceeds
\* the threshold 0.5.
C11_ConfidenceGatesOnlyVisibility ==
  wkObs.applied =>
    /\ wkObs.confidenceBlind
    /\ rm.models.head.visible <=> RGt(wkObs.confidence, Rat(1, 2))

\* C13: whenever processingFlags.head is set it is eventually cleared again,
\* whatever the worker does with the frame.
C13_FlagEventuallyCleared ==
  pool.processingFlags.head ~> ~pool.processingFlags.head

====
